---- MODULE Spec2Model ----
(***************************************************************************)
(* Model of the result unflattening core of sqlc-typescript:               *)
(*   extract_nested_schema   (unflatten.ts)                                *)
(*   unflatten_row, merge_objects, unflatten_sql_results                   *)
(*                           (the runtime emitted by render_template)      *)
(* and of the generator around it:                                         *)
(*   get_column_type         (render.ts)                                   *)
(*   extract_sql, scan_files, exec_sqlc, generate   (generator.ts)         *)
(*   debounce and the watch action                  (cli.ts)               *)
(* and of unflatten_sql_results(rows) of unflatten.ts, which infers the    *)
(* schema from the first row.                                              *)
(*                                                                         *)
(* JavaScript strings are sequences of one-character strings, so that      *)
(* split('.'), endsWith('[]') and slice(0, -2) are computed on characters. *)
(* JavaScript values are tagged records:                                   *)
(*   [kind |-> "null"], [kind |-> "undefined"], [kind |-> "number", n],    *)
(*   [kind |-> "string", s], [kind |-> "boolean", b],                      *)
(*   [kind |-> "array", items, fields], [kind |-> "object", fields]        *)
(* where fields is a function from property names to values.  An array     *)
(* carries fields too: a JavaScript array is an object and accepts named   *)
(* properties.  Property enumeration order is not modelled: every loop     *)
(* over Object.entries below touches one property per iteration.           *)
(***************************************************************************)
EXTENDS Integers, Sequences, FiniteSets, TLC

VARIABLES
    pc,        \* "start", "generated" (the query was rendered), "returned" (exec
               \* returned or threw), "merged" (merge_objects returned or threw),
               \* "inferred" (unflatten_sql_results(rows) of unflatten.ts returned or threw)
    keys,      \* the column names of the query, in order
    extracted, \* what extract_nested_schema(keys) produced: a schema or the error thrown
    rows,      \* the rows the client returns to exec
    built,     \* unflattened_rows: unflatten_row of every row
    returned,  \* what unflatten_sql_results(rows, schema) produced: entities or the error
    target,    \* merge_objects: the target argument
    source,    \* merge_objects: the source argument
    merged,    \* what merge_objects(target, source) produced: the target or the error
    column,    \* get_column_type: the column (type, table, original_name)
    schema_types, \* get_column_type: the names of the catalog's enums and composite types
    config,    \* get_column_type: the types and columns maps of the configuration
    resolved,  \* what get_column_type returned: type, db_type, source
    content,   \* extract_sql: the source file, as the tree createSourceFile parses it to
    results,   \* what extract_sql(content) returned: the SqlResult entries
    files,     \* generate: the contents of the files the include glob finds, in order
    env,       \* generate: what the call meets: the schema file, the outcome of the sqlc run
    tmp_dir,   \* generate: the temporary directory: absent, or its files
    output,    \* generate: the output file
    queries,   \* generate: the Map scan_files returned, from query name to original text
    exec_result, \* generate: what exec_sqlc returned
    pending,   \* generate: how the try block ended, while the finally block runs
    settled,   \* generate: how the promise settled
    timeout,   \* debounce: the timer waiting to fire, named by what called the
               \* wrapped() that set it: "event" or "finally"; "none" if there is none
    promise,   \* debounce: null, or the promise of the last call of func
    debounce_pending, \* debounce: its variable pending
    runs,      \* watch: the generate runs in flight, each the number of its next write
    changes,   \* watch: how many changes were made to files from outside
    written    \* watch: the paths the generate runs have written to

\* The variables of a generated query and of merge_objects
queryVars == <<keys, extracted, rows, built, returned, target, source, merged>>

\* The variables of get_column_type
typeVars == <<column, schema_types, config, resolved>>

\* The variables of extract_sql
extractVars == <<content, results>>

\* The variables of generate
generateVars == <<files, env, tmp_dir, output, queries, exec_result, pending, settled>>

\* The variables of watch mode
watchVars == <<timeout, promise, debounce_pending, runs, changes, written>>

\* The variables of the generator
toolVars == <<typeVars, extractVars, generateVars, watchVars>>

vars == <<pc, queryVars, toolVars>>

-----------------------------------------------------------------------------
(* Bounds *)

MaxKeys == 3
MaxRows == 3

-----------------------------------------------------------------------------
(* JavaScript values *)

Null == [kind |-> "null"]
Undefined == [kind |-> "undefined"]
Num(n) == [kind |-> "number", n |-> n]
\* s is a sequence of characters
Str(s) == [kind |-> "string", s |-> s]
Bool(b) == [kind |-> "boolean", b |-> b]
Arr(items) == [kind |-> "array", items |-> items, fields |-> << >>]
Obj(fields) == [kind |-> "object", fields |-> fields]

\* Array.isArray(v), with an empty array not taken for an array
IsArrayWithElements(v) == v.kind = "array" /\ Len(v.items) > 0

\* Array.isArray(v)
IsArray(v) == v.kind = "array"

\* typeof v === 'object' && v !== null   (true of arrays as well)
IsObjectLike(v) == v.kind \in {"object", "array"}

\* !v
Falsy(v) ==
    \/ v.kind \in {"null", "undefined"}
    \/ v.kind = "number" /\ v.n = 0
    \/ v.kind = "string" /\ v.s = << >>
    \/ v.kind = "boolean" /\ v.b = FALSE

\* v == null
IsNullish(v) == v.kind \in {"null", "undefined"}

\* a === b: primitives by value, objects by reference.  Two objects met by
\* merge_objects' find are never the same reference: one belongs to the
\* entity under construction, the other to the row being merged.
StrictEq(a, b) == ~IsObjectLike(a) /\ ~IsObjectLike(b) /\ a = b

\* obj[k] on a property map
Get(fields, k) == IF k \in DOMAIN fields THEN fields[k] ELSE Undefined

\* obj[k] = v on a property map
Put(fields, k, v) == [x \in (DOMAIN fields) \cup {k} |-> IF x = k THEN v ELSE fields[x]]

-----------------------------------------------------------------------------
(* Strings *)

DOT == "."
BRACKETS == <<"[", "]">>
ROOT == <<"[", "]">>
ID == <<"i", "d">>

RECURSIVE SplitFrom(_, _, _)
SplitFrom(s, i, cur) ==
    IF i > Len(s) THEN <<cur>>
    ELSE IF s[i] = DOT THEN <<cur>> \o SplitFrom(s, i + 1, << >>)
    ELSE SplitFrom(s, i + 1, Append(cur, s[i]))

\* key.split('.')
Split(s) == SplitFrom(s, 1, << >>)

\* part.endsWith('[]')
EndsWithBrackets(s) ==
    Len(s) >= 2 /\ SubSeq(s, Len(s) - 1, Len(s)) = BRACKETS

\* part.slice(0, -2)
SliceOffBrackets(s) == SubSeq(s, 1, Len(s) - 2)

\* Qualify with the '[]' of an array prefix left out.
QualifyMissingBrackets(prefix, key) ==
    IF prefix = << >> THEN key
    ELSE IF EndsWithBrackets(prefix) THEN SliceOffBrackets(prefix) \o <<DOT>> \o key
    ELSE prefix \o <<DOT>> \o key

\* prefix ? prefix + '.' + key : key
Qualify(prefix, key) ==
    IF prefix # << >> THEN prefix \o <<DOT>> \o key ELSE key

-----------------------------------------------------------------------------
(* extract_nested_schema *)

ValueNode(key) == [type |-> "value", original_name |-> key]
ObjectNode(key, props) == [type |-> "object", properties |-> props, original_name |-> key]
ArrayNode(props) == [type |-> "array", properties |-> props]

Thrown(msg) == [status |-> msg]
Ok(v) == [status |-> "ok", value |-> v]

ERR_ROOT == "Root key not found"
ERR_KEY == "Invalid schema key"
ERR_STRUCTURE == "Invalid schema structure"

\* !part, with a test for a blank part written for it
IsEmptyPartBlank(part) == part = <<" ">>

\* !part, for a string part: the empty string
IsEmptyPart(part) == part = << >>

\* The inner loop over the parts of one key, from parts[i] on, with
\* current_obj the property map reached so far.  Returns the property map
\* with the key inserted, or the error thrown.
RECURSIVE InsertParts(_, _, _, _)
InsertParts(current_obj, parts, i, key) ==
    LET part == parts[i]
        is_last == i = Len(parts)
    IN  IF IsEmptyPart(part) THEN Thrown(ERR_KEY)
        ELSE IF EndsWithBrackets(part) THEN
            LET array_name == SliceOffBrackets(part)
                with_node == IF array_name \notin DOMAIN current_obj
                             THEN Put(current_obj, array_name, ArrayNode(<< >>))
                             ELSE current_obj
                array_node == with_node[array_name]
            IN  IF array_node.type # "array" THEN Thrown(ERR_STRUCTURE)
                ELSE IF is_last THEN Ok(with_node)
                ELSE LET below == InsertParts(array_node.properties, parts, i + 1, key)
                     IN  IF below.status # "ok" THEN below
                         ELSE Ok(Put(with_node, array_name, ArrayNode(below.value)))
        ELSE IF is_last THEN Ok(Put(current_obj, part, ValueNode(key)))
        ELSE
            LET with_node == IF part \notin DOMAIN current_obj
                             THEN Put(current_obj, part, ObjectNode(key, << >>))
                             ELSE current_obj
                obj_node == with_node[part]
            IN  IF obj_node.type # "object" THEN Thrown(ERR_STRUCTURE)
                ELSE LET below == InsertParts(obj_node.properties, parts, i + 1, key)
                     IN  IF below.status # "ok" THEN below
                         ELSE Ok(Put(with_node, part,
                                     ObjectNode(obj_node.original_name, below.value)))

\* key === '[]' in the loop, with no key taken for the root key
IsRootKeyNever(key) == FALSE

\* if (key === '[]') continue
IsRootKey(key) == key = ROOT

\* The outer loop over the keys, from ks[i] on.
RECURSIVE InsertKeys(_, _, _)
InsertKeys(sch, ks, i) ==
    IF i > Len(ks) THEN Ok(sch)
    ELSE IF IsRootKey(ks[i]) THEN InsertKeys(sch, ks, i + 1)
    ELSE LET one == InsertParts(sch, Split(ks[i]), 1, ks[i])
         IN  IF one.status # "ok" THEN one ELSE InsertKeys(one.value, ks, i + 1)

extract_nested_schema(ks) ==
    IF \A i \in 1..Len(ks) : ks[i] # ROOT THEN Thrown(ERR_ROOT)
    ELSE InsertKeys(<< >>, ks, 1)

-----------------------------------------------------------------------------
(* unflatten_row *)

\* array_index === null, with == written for ===
IsNullMarkerLoose(array_index) == IsNullish(array_index)

\* array_index === null, with undefined written for null
IsNullMarkerUndefinedOnly(array_index) == array_index = Undefined

\* array_index === null
IsNullMarker(array_index) == array_index = Null

\* build_object(schema, prefix) over the flat row r
RECURSIVE build_object(_, _, _)
build_object(r, sch, prefix) ==
    [key \in DOMAIN sch |->
        LET value == sch[key]
            full_key == Qualify(prefix, key)
        IN  IF value.type = "value" THEN Get(r, full_key)
            ELSE IF value.type = "object"
            THEN Obj(build_object(r, value.properties, full_key))
            ELSE LET array_index == Get(r, full_key \o BRACKETS)
                 IN  IF IsNullMarker(array_index) THEN Arr(<< >>)
                     ELSE Arr(<<Obj(build_object(r, value.properties,
                                                 full_key \o BRACKETS))>>)]

unflatten_row(r, sch) == Obj(build_object(r, sch, << >>))

-----------------------------------------------------------------------------
(* merge_objects *)

ERR_ARRAY == "Expected array at key"
ERR_OBJECT == "Expected object at key"

\* item.id
IdOf(item) == IF IsObjectLike(item) THEN Get(item.fields, ID) ELSE Undefined

\* target[key] = v
SetField(t, key, v) == [t EXCEPT !.fields = Put(@, key, v)]

\* find that looks at the last element only
FindExistingLastOnly(items, first_value) ==
    IF Len(items) > 0 /\ StrictEq(IdOf(items[Len(items)]), IdOf(first_value))
    THEN Len(items) ELSE 0

\* find that never matches: every element is pushed
FindExistingNever(items, first_value) == 0

\* target_typed.find((item) => item.id === first_value.id): the position of
\* the first match, 0 for undefined
FindExisting(items, first_value) ==
    LET hits == {i \in 1..Len(items) : StrictEq(IdOf(items[i]), IdOf(first_value))}
    IN  IF hits = {} THEN 0 ELSE CHOOSE i \in hits : \A j \in hits : i <= j

\* target[key] = value, written so that a value already there is kept
AssignValueFirstWins(t, key, value) ==
    IF key \in DOMAIN t.fields THEN t ELSE SetField(t, key, value)

\* The last branch of the loop body: target[key] = value
AssignValue(t, key, value) == SetField(t, key, value)

RECURSIVE merge_objects(_, _)
RECURSIVE MergeEntries(_, _, _)

\* merge_objects(existing, first_value), with the row's element put in the
\* place of the one found
MergeIntoExistingReplaces(existing, first_value) == Ok(first_value)

\* if (existing) merge_objects(existing, first_value)
MergeIntoExisting(existing, first_value) == merge_objects(existing, first_value)

\* One iteration of the loop over Object.entries(source): the entry [key, value]
MergeEntry(t, key, value) ==
    IF IsArray(value) THEN
        LET target_array == Get(t.fields, key)
        IN  IF ~Falsy(target_array) /\ ~IsArray(target_array) THEN Thrown(ERR_ARRAY)
            ELSE
                LET t1 == IF Falsy(target_array) THEN SetField(t, key, Arr(<< >>)) ELSE t
                    target_typed == t1.fields[key]
                IN  IF Len(value.items) = 0 THEN Ok(t1)
                    ELSE
                        LET first_value == value.items[1]
                            at == FindExisting(target_typed.items, first_value)
                        IN  IF at # 0 /\ ~Falsy(target_typed.items[at]) THEN
                                LET m == MergeIntoExisting(target_typed.items[at], first_value)
                                IN  IF m.status # "ok" THEN m
                                    ELSE Ok(SetField(t1, key,
                                            [target_typed EXCEPT !.items[at] = m.value]))
                            ELSE Ok(SetField(t1, key,
                                    [target_typed EXCEPT !.items = @ \o value.items]))
    ELSE IF IsObjectLike(value) THEN
        LET t1 == IF Falsy(Get(t.fields, key)) THEN SetField(t, key, Obj(<< >>)) ELSE t
            target_obj == t1.fields[key]
        IN  IF ~IsObjectLike(target_obj) THEN Thrown(ERR_OBJECT)
            ELSE LET m == merge_objects(target_obj, value)
                 IN  IF m.status # "ok" THEN m ELSE Ok(SetField(t1, key, m.value))
    ELSE Ok(AssignValue(t, key, value))

\* The loop over Object.entries(source), todo being the entries not yet visited
MergeEntries(t, src, todo) ==
    IF todo = {} THEN Ok(t)
    ELSE LET key == CHOOSE k \in todo : TRUE
             one == MergeEntry(t, key, src[key])
         IN  IF one.status # "ok" THEN one ELSE MergeEntries(one.value, src, todo \ {key})

merge_objects(t, s) == MergeEntries(t, s.fields, DOMAIN s.fields)

-----------------------------------------------------------------------------
(* unflatten_sql_results *)

ERR_ROOT_KEY == "Invalid root key"

\* root_key == null, with === undefined written for == null
RootKeyMissingStrict(root_key) == root_key = Undefined

\* root_key == null
RootKeyMissing(root_key) == IsNullish(root_key)

\* existing_index == null, with !existing_index written for it: index 0 is
\* taken for a miss
IsNewRootFalsy(root_id_map, root_key) ==
    root_key \notin DOMAIN root_id_map \/ root_id_map[root_key] = 0

\* existing_index == null, for existing_index = root_id_map.get(root_key)
IsNewRoot(root_id_map, root_key) == root_key \notin DOMAIN root_id_map

\* The loop over unflattened_rows.entries(), from position index (0-based) on.
\* root_id_map holds 0-based positions of result, as the code does.
RECURSIVE RegroupFrom(_, _, _, _, _)
RegroupFrom(rs, unflattened_rows, index, result, root_id_map) ==
    IF index >= Len(rs) THEN Ok(result)
    ELSE
        LET r == unflattened_rows[index + 1]
            root_key == Get(rs[index + 1], ROOT)
        IN  IF RootKeyMissing(root_key) THEN Thrown(ERR_ROOT_KEY)
            ELSE IF IsNewRoot(root_id_map, root_key) THEN
                RegroupFrom(rs, unflattened_rows, index + 1, Append(result, r),
                            Put(root_id_map, root_key, Len(result)))
            ELSE
                LET existing_index == root_id_map[root_key]
                    m == merge_objects(result[existing_index + 1], r)
                IN  IF m.status # "ok" THEN m
                    ELSE RegroupFrom(rs, unflattened_rows, index + 1,
                                     [result EXCEPT ![existing_index + 1] = m.value],
                                     root_id_map)

\* rows.map((row) => unflatten_row(row, schema))
UnflattenedRows(rs, sch) == [i \in 1..Len(rs) |-> unflatten_row(rs[i], sch)]

\* unflatten_sql_results, with the root identity of the first row looked at
\* before the length: rows[0]?.['[]'] of no row is undefined
unflatten_sql_results_RootFirst(rs, sch) ==
    IF RootKeyMissing(IF Len(rs) = 0 THEN Undefined ELSE Get(rs[1], ROOT))
    THEN Thrown(ERR_ROOT_KEY)
    ELSE RegroupFrom(rs, UnflattenedRows(rs, sch), 0, << >>, << >>)

unflatten_sql_results(rs, sch) ==
    IF Len(rs) = 0 THEN Ok(<< >>)
    ELSE RegroupFrom(rs, UnflattenedRows(rs, sch), 0, << >>, << >>)

-----------------------------------------------------------------------------
(* unflatten_sql_results(rows) of unflatten.ts: the schema is inferred from *)
(* the first row                                                            *)

ERR_ROOT_INDEX == "Invalid root index"

\* Object.keys(row): the columns ks the row has, in column order
ObjectKeys(r, ks) == SelectSeq(ks, LAMBDA k : Get(r, k) # Undefined)

\* The extract_nested_schema this function calls: the loop over the keys, with
\* no test for the root key before it
extract_nested_schema_of_keys(ks) == InsertKeys(<< >>, ks, 1)

\* typeof root_index !== 'number'
IsNoNumber(root_index) == root_index.kind # "number"

\* The loop over unflattened_rows, from position index (0-based) on:
\* root_index is read from rows[0] in every iteration
RECURSIVE RegroupByFirstRow(_, _, _, _, _)
RegroupByFirstRow(rs, unflattened_rows, index, result, root_index_map) ==
    IF index >= Len(unflattened_rows) THEN Ok(result)
    ELSE
        LET r == unflattened_rows[index + 1]
            root_index == Get(rs[1], ROOT)
        IN  IF IsNoNumber(root_index) THEN Thrown(ERR_ROOT_INDEX)
            ELSE IF root_index \notin DOMAIN root_index_map THEN
                RegroupByFirstRow(rs, unflattened_rows, index + 1, Append(result, r),
                                  Put(root_index_map, root_index, Len(result)))
            ELSE
                LET existing_index == root_index_map[root_index]
                    m == merge_objects(result[existing_index + 1], r)
                IN  IF m.status # "ok" THEN m
                    ELSE RegroupByFirstRow(rs, unflattened_rows, index + 1,
                                           [result EXCEPT ![existing_index + 1] = m.value],
                                           root_index_map)

\* unflatten_sql_results(rows), ks being the order of the columns of a row
unflatten_sql_results_of_rows(rs, ks) ==
    IF Len(rs) = 0 THEN Ok(<< >>)
    ELSE LET sch == extract_nested_schema_of_keys(ObjectKeys(rs[1], ks))
         IN  IF sch.status # "ok" THEN sch
             ELSE RegroupByFirstRow(rs, UnflattenedRows(rs, sch.value), 0, << >>, << >>)

-----------------------------------------------------------------------------
(* Inputs *)

NotYet == [status |-> "none"]

\* No query is generated or executed
QueryIdle ==
    /\ keys = << >>
    /\ rows = << >>
    /\ extracted = NotYet
    /\ built = << >>
    /\ returned = NotYet
    /\ target = Undefined
    /\ source = Undefined
    /\ merged = NotYet

\* No type is resolved
TypesIdle ==
    /\ column = Null
    /\ schema_types = {}
    /\ config = Null
    /\ resolved = NotYet

\* No source file is looked at
ExtractIdle ==
    /\ content = Null
    /\ results = << >>

\* generate is not called
GenerateIdle ==
    /\ files = << >>
    /\ env = Null
    /\ tmp_dir = Null
    /\ output = Null
    /\ queries = << >>
    /\ exec_result = NotYet
    /\ pending = NotYet
    /\ settled = NotYet

\* let timeout: no timer is waiting
NoTimer == "none"

\* Nothing is watched
WatchIdle ==
    /\ timeout = NoTimer
    /\ promise = Null
    /\ debounce_pending = FALSE
    /\ runs = << >>
    /\ changes = 0
    /\ written = {}

ToolIdle == TypesIdle /\ ExtractIdle /\ GenerateIdle /\ WatchIdle

RECURSIVE SeqsOfLen(_, _)
SeqsOfLen(S, n) ==
    IF n = 0 THEN {<< >>}
    ELSE {Append(q, x) : q \in SeqsOfLen(S, n - 1), x \in S}

SeqsUpTo(S, n) == UNION {SeqsOfLen(S, m) : m \in 0..n}

Range(f) == {f[x] : x \in DOMAIN f}

\* Every row over the columns ks whose value at column k is drawn from dom[k]
RECURSIVE RowsOver(_, _)
RowsOver(ks, dom) ==
    IF ks = {} THEN {<< >>}
    ELSE LET k == CHOOSE x \in ks : TRUE
         IN  {Put(r, k, v) : r \in RowsOver(ks \ {k}, dom), v \in dom[k]}

K_id == <<"i", "d">>
K_o == <<"o", "[", "]">>
K_o_id == <<"o", "[", "]", ".", "i", "d">>
K_o_t == <<"o", "[", "]", ".", "t">>
K_o_i == <<"o", "[", "]", ".", "i", "[", "]">>
K_o_i_id == <<"o", "[", "]", ".", "i", "[", "]", ".", "i", "d">>
K_t == <<"t", "[", "]">>
K_t_v == <<"t", "[", "]", ".", "v">>
K_s_a == <<"s", ".", "a">>
K_g_x == <<"g", "[", "]", ".", "x">>

\* Queries: the column names, and the values each column takes in the rows.
\* A column valued Undefined stands for a row without that property.
FlatQuery ==
    [keys |-> <<ROOT, K_id>>,
     dom |-> (ROOT :> {Num(1), Num(2), Null, Undefined}) @@
             (K_id :> {Str(<<"u">>), Str(<<"w">>)})]

\* orders[] with an id per element, in two root groups
ArrayQuery ==
    [keys |-> <<ROOT, K_o, K_o_id, K_o_t>>,
     dom |-> (ROOT :> {Num(1), Num(2)}) @@
             (K_o :> {Null, Num(7)}) @@
             (K_o_id :> {Num(10), Num(11)}) @@
             (K_o_t :> {Num(5)})]

\* the same columns, with rows that differ in the total of an order
TotalsQuery ==
    [keys |-> <<ROOT, K_o, K_o_id, K_o_t>>,
     dom |-> (ROOT :> {Num(1)}) @@
             (K_o :> {Num(7)}) @@
             (K_o_id :> {Num(10), Num(11)}) @@
             (K_o_t :> {Num(5), Num(9)})]

\* tags[] whose elements have no id
NoIdQuery ==
    [keys |-> <<ROOT, K_t, K_t_v>>,
     dom |-> (ROOT :> {Num(1), Num(2)}) @@
             (K_t :> {Null, Num(7)}) @@
             (K_t_v :> {Num(5), Num(9)})]

\* orders[].items[], ids at both levels
NestedArrayQuery ==
    [keys |-> <<ROOT, K_o, K_o_id, K_o_i, K_o_i_id>>,
     dom |-> (ROOT :> {Num(1)}) @@
             (K_o :> {Num(7)}) @@
             (K_o_id :> {Num(10), Num(11)}) @@
             (K_o_i :> {Null, Num(7)}) @@
             (K_o_i_id :> {Num(20), Num(21)})]

\* a nested object, and an array whose marker column g[] is not selected
ObjectQuery ==
    [keys |-> <<ROOT, K_s_a, K_g_x>>,
     dom |-> (ROOT :> {Num(1), Num(2)}) @@
             (K_s_a :> {Num(3), Null}) @@
             (K_g_x :> {Num(5)})]

Queries == {FlatQuery, ArrayQuery, TotalsQuery, NoIdQuery, NestedArrayQuery, ObjectQuery}

RowsOfQuery(q) == RowsOver(Range(q.keys), q.dom)

-----------------------------------------------------------------------------
(* The generated query: rendered once, executed on a result set *)

\* generate_query: nested_schema = extract_nested_schema(query.columns.map(c => c.name));
\* a throw fails the generation and no exec is emitted.
GenerateQuery ==
    /\ pc = "start"
    /\ extracted' = extract_nested_schema(keys)
    /\ pc' = "generated"
    /\ UNCHANGED <<keys, rows, built, returned, target, source, merged, toolVars>>

\* exec: return unflatten_sql_results(rows, <the schema rendered into the file>)
Exec ==
    /\ pc = "generated"
    /\ extracted.status = "ok"
    /\ built' = UnflattenedRows(rows, extracted.value)
    /\ returned' = unflatten_sql_results(rows, extracted.value)
    /\ pc' = "returned"
    /\ UNCHANGED <<keys, extracted, rows, target, source, merged, toolVars>>

\* unflatten_sql_results(rows) of unflatten.ts, called on the rows as they are
UnflattenSqlResults ==
    /\ pc = "start"
    /\ returned' = unflatten_sql_results_of_rows(rows, keys)
    /\ pc' = "inferred"
    /\ UNCHANGED <<keys, extracted, rows, built, target, source, merged, toolVars>>

Init ==
    /\ pc = "start"
    /\ \E q \in Queries :
        /\ keys = q.keys
        /\ rows \in SeqsUpTo(RowsOfQuery(q), MaxRows)
    /\ extracted = NotYet
    /\ built = << >>
    /\ returned = NotYet
    /\ target = Undefined
    /\ source = Undefined
    /\ merged = NotYet
    /\ ToolIdle

Next == GenerateQuery \/ Exec

Spec == Init /\ [][Next]_vars

\* The same result sets, handed to unflatten_sql_results(rows) of unflatten.ts
NextRows == UnflattenSqlResults

SpecRows == Init /\ [][NextRows]_vars

-----------------------------------------------------------------------------
(* Column lists of any shape, each executed on one row *)

K_a == <<"a">>
K_b == <<"b">>
K_a_b == <<"a", ".", "b">>
K_a_b_c == <<"a", ".", "b", ".", "c">>
K_aa == <<"a", "[", "]">>
K_aa_b == <<"a", "[", "]", ".", "b">>
K_aa_b_c == <<"a", "[", "]", ".", "b", ".", "c">>
K_a_bb_c == <<"a", ".", "b", "[", "]", ".", "c">>
K_root_a == <<"[", "]", ".", "a">>
K_a__b == <<"a", ".", ".", "b">>
K_a_ == <<"a", ".">>
K__a == <<".", "a">>
K_empty == << >>

KeyPool ==
    {ROOT, K_a, K_b, K_a_b, K_a_b_c, K_aa, K_aa_b, K_aa_b_c, K_a_bb_c, K_root_a,
     K_a__b, K_a_, K__a, K_empty}

\* The rows of a column list: the root identity is 1 or the string 'a' (what
\* the column a holds: an identity selected a second time as a field), a
\* column ending in [] holds null or its own name, every other column holds
\* its own name, so that no two of these columns hold the same value.
RowsOfKeys(ks) ==
    RowsOver(Range(ks),
             [k \in Range(ks) |->
                IF k = ROOT THEN {Num(1), Str(K_a)}
                ELSE IF EndsWithBrackets(k) THEN {Null, Str(k)}
                ELSE {Str(k)}])

InitKeys ==
    /\ pc = "start"
    /\ keys \in SeqsUpTo(KeyPool, MaxKeys)
    /\ rows \in {<<r>> : r \in RowsOfKeys(keys)}
    /\ extracted = NotYet
    /\ built = << >>
    /\ returned = NotYet
    /\ target = Undefined
    /\ source = Undefined
    /\ merged = NotYet
    /\ ToolIdle

SpecKeys == InitKeys /\ [][Next]_vars

-----------------------------------------------------------------------------
(* Column lists of any shape that have the root key, each executed on two  *)
(* rows                                                                    *)

HasRoot(ks) == \E i \in 1..Len(ks) : ks[i] = ROOT

InitPairs ==
    /\ pc = "start"
    /\ keys \in {ks \in SeqsUpTo(KeyPool, MaxKeys) : HasRoot(ks)}
    /\ rows \in SeqsOfLen(RowsOfKeys(keys), 2)
    /\ extracted = NotYet
    /\ built = << >>
    /\ returned = NotYet
    /\ target = Undefined
    /\ source = Undefined
    /\ merged = NotYet
    /\ ToolIdle

SpecPairs == InitPairs /\ [][Next]_vars

-----------------------------------------------------------------------------
(* merge_objects on its own *)

F_x == <<"x">>
F_p == <<"p">>

TargetValues ==
    {Null, Num(0), Num(1), Str(<< >>), Str(<<"a">>), Bool(FALSE), Bool(TRUE),
     Obj(<< >>), Obj(ID :> Num(1)), Arr(<< >>), Arr(<<Obj(ID :> Num(1))>>)}

SourceValues ==
    {Arr(<< >>), Arr(<<Obj(ID :> Num(1))>>), Arr(<<Obj(ID :> Num(2))>>),
     Obj(<< >>), Obj(ID :> Num(2)), Num(1), Null}

Targets ==
    {Obj(<< >>)} \cup {Obj(F_x :> v) : v \in TargetValues}
                 \cup {Obj(F_p :> Obj(F_x :> v)) : v \in TargetValues}

Sources ==
    {Obj(F_x :> w) : w \in SourceValues} \cup {Obj(F_p :> Obj(F_x :> w)) : w \in SourceValues}

MergeObjects ==
    /\ pc = "start"
    /\ merged' = merge_objects(target, source)
    /\ pc' = "merged"
    /\ UNCHANGED <<keys, extracted, rows, built, returned, target, source, toolVars>>

InitMerge ==
    /\ pc = "start"
    /\ keys = << >>
    /\ rows = << >>
    /\ extracted = NotYet
    /\ built = << >>
    /\ returned = NotYet
    /\ target \in Targets
    /\ source \in Sources
    /\ merged = NotYet
    /\ ToolIdle

NextMerge == MergeObjects

SpecMerge == InitMerge /\ [][NextMerge]_vars

-----------------------------------------------------------------------------
(* get_column_type: the TypeScript type of a column *)

PUBLIC == <<"p", "u", "b", "l", "i", "c">>
PG_CATALOG == <<"p", "g", "_", "c", "a", "t", "a", "l", "o", "g">>
UNKNOWN == <<"u", "n", "k", "n", "o", "w", "n">>

\* Array.prototype.join
RECURSIVE Join(_, _)
Join(parts, sep) ==
    IF Len(parts) = 0 THEN << >>
    ELSE IF Len(parts) = 1 THEN parts[1]
    ELSE parts[1] \o sep \o Join(Tail(parts), sep)

\* The filter on the parts of a name, for a part that is a string (the
\* x != null test is made where the part is read)
IsNamePart(x) == x # << >> /\ x # PUBLIC /\ x # PG_CATALOG

\* map[key]: the string, or undefined
Lookup(map, key) == IF key \in DOMAIN map THEN Str(map[key]) ELSE Undefined

\* a || b
OrElse(a, b) == IF Falsy(a) THEN b ELSE a

DEFAULT_TYPES ==
    (<<"t", "e", "x", "t">> :> <<"s", "t", "r", "i", "n", "g">>) @@
    (<<"v", "a", "r", "c", "h", "a", "r">> :> <<"s", "t", "r", "i", "n", "g">>) @@
    (<<"c", "h", "a", "r">> :> <<"s", "t", "r", "i", "n", "g">>) @@
    (<<"c", "i", "t", "e", "x", "t">> :> <<"s", "t", "r", "i", "n", "g">>) @@
    (<<"n", "a", "m", "e">> :> <<"s", "t", "r", "i", "n", "g">>) @@
    (<<"i", "n", "t", "2">> :> <<"n", "u", "m", "b", "e", "r">>) @@
    (<<"i", "n", "t", "4">> :> <<"n", "u", "m", "b", "e", "r">>) @@
    (<<"i", "n", "t", "8">> :> <<"n", "u", "m", "b", "e", "r">>) @@
    (<<"s", "m", "a", "l", "l", "i", "n", "t">> :> <<"n", "u", "m", "b", "e", "r">>) @@
    (<<"i", "n", "t", "e", "g", "e", "r">> :> <<"n", "u", "m", "b", "e", "r">>) @@
    (<<"b", "i", "g", "i", "n", "t">> :> <<"n", "u", "m", "b", "e", "r">>) @@
    (<<"d", "e", "c", "i", "m", "a", "l">> :> <<"n", "u", "m", "b", "e", "r">>) @@
    (<<"n", "u", "m", "e", "r", "i", "c">> :> <<"n", "u", "m", "b", "e", "r">>) @@
    (<<"r", "e", "a", "l">> :> <<"n", "u", "m", "b", "e", "r">>) @@
    (<<"f", "l", "o", "a", "t", "4">> :> <<"n", "u", "m", "b", "e", "r">>) @@
    (<<"f", "l", "o", "a", "t", "8">> :> <<"n", "u", "m", "b", "e", "r">>) @@
    (<<"d", "o", "u", "b", "l", "e">> :> <<"n", "u", "m", "b", "e", "r">>) @@
    (<<"m", "o", "n", "e", "y">> :> <<"n", "u", "m", "b", "e", "r">>) @@
    (<<"b", "o", "o", "l">> :> <<"b", "o", "o", "l", "e", "a", "n">>) @@
    (<<"b", "o", "o", "l", "e", "a", "n">> :> <<"b", "o", "o", "l", "e", "a", "n">>) @@
    (<<"d", "a", "t", "e">> :> <<"D", "a", "t", "e">>) @@
    (<<"t", "i", "m", "e", "s", "t", "a", "m", "p">> :> <<"D", "a", "t", "e">>) @@
    (<<"t", "i", "m", "e", "s", "t", "a", "m", "p", "t", "z">> :> <<"D", "a", "t", "e">>) @@
    (<<"t", "i", "m", "e">> :> <<"s", "t", "r", "i", "n", "g">>) @@
    (<<"t", "i", "m", "e", "t", "z">> :> <<"s", "t", "r", "i", "n", "g">>) @@
    (<<"i", "n", "t", "e", "r", "v", "a", "l">> :> <<"s", "t", "r", "i", "n", "g">>) @@
    (<<"j", "s", "o", "n">> :> <<"J", "s", "o", "n">>) @@
    (<<"j", "s", "o", "n", "b">> :> <<"J", "s", "o", "n">>) @@
    (<<"u", "u", "i", "d">> :> <<"s", "t", "r", "i", "n", "g">>) @@
    (<<"i", "n", "e", "t">> :> <<"s", "t", "r", "i", "n", "g">>) @@
    (<<"c", "i", "d", "r">> :> <<"s", "t", "r", "i", "n", "g">>) @@
    (<<"m", "a", "c", "a", "d", "d", "r">> :> <<"s", "t", "r", "i", "n", "g">>) @@
    (<<"m", "a", "c", "a", "d", "d", "r", "8">> :> <<"s", "t", "r", "i", "n", "g">>) @@
    (<<"p", "o", "i", "n", "t">> :> <<"s", "t", "r", "i", "n", "g">>) @@
    (<<"l", "i", "n", "e">> :> <<"s", "t", "r", "i", "n", "g">>) @@
    (<<"l", "s", "e", "g">> :> <<"s", "t", "r", "i", "n", "g">>) @@
    (<<"b", "o", "x">> :> <<"s", "t", "r", "i", "n", "g">>) @@
    (<<"p", "a", "t", "h">> :> <<"s", "t", "r", "i", "n", "g">>) @@
    (<<"p", "o", "l", "y", "g", "o", "n">> :> <<"s", "t", "r", "i", "n", "g">>) @@
    (<<"c", "i", "r", "c", "l", "e">> :> <<"s", "t", "r", "i", "n", "g">>) @@
    (<<"b", "y", "t", "e", "a">> :> <<"B", "u", "f", "f", "e", "r">>) @@
    (<<"_", "t", "e", "x", "t">> :> <<"s", "t", "r", "i", "n", "g", "[", "]">>) @@
    (<<"_", "v", "a", "r", "c", "h", "a", "r">> :> <<"s", "t", "r", "i", "n", "g", "[", "]">>) @@
    (<<"_", "i", "n", "t", "2">> :> <<"n", "u", "m", "b", "e", "r", "[", "]">>) @@
    (<<"_", "i", "n", "t", "4">> :> <<"n", "u", "m", "b", "e", "r", "[", "]">>) @@
    (<<"_", "i", "n", "t", "8">> :> <<"n", "u", "m", "b", "e", "r", "[", "]">>) @@
    (<<"_", "f", "l", "o", "a", "t", "4">> :> <<"n", "u", "m", "b", "e", "r", "[", "]">>) @@
    (<<"_", "f", "l", "o", "a", "t", "8">> :> <<"n", "u", "m", "b", "e", "r", "[", "]">>) @@
    (<<"_", "b", "o", "o", "l">> :> <<"b", "o", "o", "l", "e", "a", "n", "[", "]">>) @@
    (<<"_", "d", "a", "t", "e">> :> <<"D", "a", "t", "e", "[", "]">>) @@
    (<<"_", "t", "i", "m", "e", "s", "t", "a", "m", "p">> :> <<"D", "a", "t", "e", "[", "]">>) @@
    (<<"_", "t", "i", "m", "e", "s", "t", "a", "m", "p", "t", "z">> :> <<"D", "a", "t", "e", "[", "]">>) @@
    (<<"_", "j", "s", "o", "n">> :> <<"u", "n", "k", "n", "o", "w", "n", "[", "]">>) @@
    (<<"_", "j", "s", "o", "n", "b">> :> <<"u", "n", "k", "n", "o", "w", "n", "[", "]">>) @@
    (<<"_", "u", "u", "i", "d">> :> <<"s", "t", "r", "i", "n", "g", "[", "]">>) @@
    (<<"b", "i", "t">> :> <<"s", "t", "r", "i", "n", "g">>) @@
    (<<"v", "a", "r", "b", "i", "t">> :> <<"s", "t", "r", "i", "n", "g">>) @@
    (<<"t", "s", "v", "e", "c", "t", "o", "r">> :> <<"s", "t", "r", "i", "n", "g">>) @@
    (<<"t", "s", "q", "u", "e", "r", "y">> :> <<"s", "t", "r", "i", "n", "g">>) @@
    (<<"x", "m", "l">> :> <<"s", "t", "r", "i", "n", "g">>) @@
    (<<"e", "n", "u", "m">> :> <<"s", "t", "r", "i", "n", "g">>) @@
    (<<"o", "i", "d">> :> <<"n", "u", "m", "b", "e", "r">>)

\* [column.table?.schema, ...(column.table?.name.split('.') ?? [])]: undefined
\* alone when the column has no table, and the filter drops it
TableParts(c) ==
    IF c.table = Null THEN << >>
    ELSE <<c.table.schema>> \o Split(c.table.name)

SourceOf(c) ==
    Join(Append(SelectSeq(TableParts(c), IsNamePart), c.original_name), DOT)

DbTypeOf(c) ==
    Join(SelectSeq(<<c.type.schema>> \o Split(c.type.name), IsNamePart), DOT)

\* config.columns[source], with the entry never found
ColumnOverrideIgnored(cfg, src) == Undefined

\* config.columns[source]
ColumnOverride(cfg, src) == Lookup(cfg.columns, src)

get_column_type(c, declared, cfg) ==
    LET src == SourceOf(c)
        db_type == DbTypeOf(c)
        final_type ==
            IF ~Falsy(ColumnOverride(cfg, src)) THEN ColumnOverride(cfg, src)
            ELSE IF db_type \in declared
            THEN Str(Join(<<c.type.schema, c.type.name>>, DOT))
            ELSE OrElse(Lookup(DEFAULT_TYPES, db_type),
                 OrElse(Lookup(cfg.types, db_type),
                 OrElse(Lookup(DEFAULT_TYPES, db_type), Str(UNKNOWN))))
    IN  [type |-> final_type, db_type |-> db_type, source |-> src]

\* Names used in the columns, catalogs and configurations below
N_app == <<"a", "p", "p">>
N_users == <<"u", "s", "e", "r", "s">>
N_id == <<"i", "d">>
N_users_id == <<"u", "s", "e", "r", "s", ".", "i", "d">>
N_app_users_id == <<"a", "p", "p", ".", "u", "s", "e", "r", "s", ".", "i", "d">>
N_timestamptz == <<"t", "i", "m", "e", "s", "t", "a", "m", "p", "t", "z">>
N_pg_timestamptz == <<"p", "g", "_", "c", "a", "t", "a", "l", "o", "g", ".", "t", "i", "m", "e", "s", "t", "a", "m", "p", "t", "z">>
N_ltree == <<"l", "t", "r", "e", "e">>
N_status == <<"s", "t", "a", "t", "u", "s">>
N_app_status == <<"a", "p", "p", ".", "s", "t", "a", "t", "u", "s">>
N_public_status == <<"p", "u", "b", "l", "i", "c", ".", "s", "t", "a", "t", "u", "s">>
TS_DateTime == <<"D", "a", "t", "e", "T", "i", "m", "e">>
TS_Path == <<"P", "a", "t", "h">>
TS_UUID == <<"U", "U", "I", "D">>
TS_Status == <<"S", "t", "a", "t", "u", "s">>

\* ObjectType values: the type of a column, and its table (null for a computed column)
ColumnTypes ==
    {[schema |-> s, name |-> n] :
        s \in {<< >>, PG_CATALOG, N_app},
        n \in {N_timestamptz, N_pg_timestamptz, N_ltree, N_status}}

ColumnTables ==
    {Null} \cup {[schema |-> s, name |-> N_users] : s \in {<< >>, PUBLIC, N_app}}

Columns ==
    {[type |-> t, table |-> tb, original_name |-> N_id] :
        t \in ColumnTypes, tb \in ColumnTables}

\* config.types and config.columns: maps from names to TypeScript types
NoEntries == << >>

ConfigTypes ==
    {NoEntries,
     N_timestamptz :> TS_DateTime,
     N_ltree :> TS_Path,
     (N_timestamptz :> TS_DateTime) @@ (N_app_status :> TS_Status),
     N_ltree :> << >>}

ConfigColumns ==
    {NoEntries,
     N_users_id :> TS_UUID,
     N_app_users_id :> TS_UUID,
     N_id :> TS_UUID,
     N_users_id :> << >>}

Configs == {[types |-> t, columns |-> c] : t \in ConfigTypes, c \in ConfigColumns}

\* What get_schema_types collects: schema.name '.' name of each enum and
\* composite type of the catalog
SchemaTypeSets == {{}, {N_app_status}, {N_public_status}}

\* column_to_tstype: const { type } = get_column_type({ config, column, schema_types })
GetColumnType ==
    /\ pc = "start"
    /\ resolved' = get_column_type(column, schema_types, config)
    /\ pc' = "resolved"
    /\ UNCHANGED <<queryVars, watchVars, column, schema_types, config, extractVars, generateVars>>

InitTypes ==
    /\ pc = "start"
    /\ QueryIdle
    /\ WatchIdle
    /\ column \in Columns
    /\ schema_types \in SchemaTypeSets
    /\ config \in Configs
    /\ resolved = NotYet
    /\ ExtractIdle
    /\ GenerateIdle

NextTypes == GetColumnType

SpecTypes == InitTypes /\ [][NextTypes]_vars

-----------------------------------------------------------------------------
(* extract_sql: the sqlc calls of a source file *)

\* Nodes of the syntax tree.  A literal carries its source text, quotes
\* included, as getText() returns it.
Identifier(text) == [kind |-> "Identifier", text |-> text]
StringLiteral(text) == [kind |-> "StringLiteral", text |-> text]
NoSubstitutionTemplateLiteral(text) == [kind |-> "NoSubstitutionTemplateLiteral", text |-> text]
TemplateExpression(spans) == [kind |-> "TemplateExpression", spans |-> spans]
NumericLiteral == [kind |-> "NumericLiteral"]
PropertyAccessExpression(expression) == [kind |-> "PropertyAccessExpression", expression |-> expression]
CallExpression(expression, arguments) ==
    [kind |-> "CallExpression", expression |-> expression, arguments |-> arguments]
SourceFile(statements) == [kind |-> "SourceFile", statements |-> statements]

\* The nodes ts.forEachChild visits, in order
ChildrenOf(node) ==
    CASE node.kind = "SourceFile" -> node.statements
      [] node.kind = "CallExpression" -> <<node.expression>> \o node.arguments
      [] node.kind = "PropertyAccessExpression" -> <<node.expression>>
      [] node.kind = "TemplateExpression" -> node.spans
      [] OTHER -> << >>

SQLC_NAME == <<"s", "q", "l", "c">>

\* ts.isCallExpression(node) && ts.isIdentifier(identifier) && identifier.text === 'sqlc'
IsSqlcCall(node) ==
    /\ node.kind = "CallExpression"
    /\ node.expression.kind = "Identifier"
    /\ node.expression.text = SQLC_NAME

\* SqlResult
Success(sql) == [success |-> TRUE, sql |-> sql]
Failure(error) == [success |-> FALSE, error |-> error]

ERR_MISSING == "Missing argument in sqlc call"
ERR_INTERPOLATION == "Template literal interpolation is not allowed"
ERR_MULTIPLE == "Multiple arguments are not allowed in sqlc call"
ERR_ARGUMENT == "Invalid argument type in sqlc call"

\* arg.getText().slice(1, -1)
SliceQuotes(text) == SubSeq(text, 2, Len(text) - 1)

\* What visit does with a call of sqlc: the entry pushed, and whether the
\* function goes on to the children of the node (a return ends the visit)
SqlcEntry(node) ==
    IF Len(node.arguments) = 0
    THEN [entry |-> Failure(ERR_MISSING), descends |-> FALSE]
    ELSE LET arg == node.arguments[1]
         IN  IF arg.kind = "TemplateExpression"
             THEN [entry |-> Failure(ERR_INTERPOLATION), descends |-> FALSE]
             ELSE IF Len(node.arguments) > 1
             THEN [entry |-> Failure(ERR_MULTIPLE), descends |-> FALSE]
             ELSE IF arg.kind \in {"NoSubstitutionTemplateLiteral", "StringLiteral"}
             THEN [entry |-> Success(SliceQuotes(arg.text)), descends |-> TRUE]
             ELSE [entry |-> Failure(ERR_ARGUMENT), descends |-> TRUE]

\* visit(node): the entries pushed to results, in order
RECURSIVE visit(_)
RECURSIVE VisitChildren(_, _)
visit(node) ==
    IF IsSqlcCall(node)
    THEN IF SqlcEntry(node).descends
         THEN <<SqlcEntry(node).entry>> \o VisitChildren(ChildrenOf(node), 1)
         ELSE <<SqlcEntry(node).entry>>
    ELSE VisitChildren(ChildrenOf(node), 1)

VisitChildren(children, i) ==
    IF i > Len(children) THEN << >>
    ELSE visit(children[i]) \o VisitChildren(children, i + 1)

\* extract_sql(content), for a content that createSourceFile parses to the
\* tree sourceFile
extract_sql(sourceFile) == visit(sourceFile)

\* Source texts
SRC_a == <<"'", "a", "'">>
SRC_space_a == <<"'", " ", "a", "'">>
\* BACKTICK stands for the delimiter of a template literal
BACKTICK == "~"
SRC_b == <<BACKTICK, "b", BACKTICK>>
SQLC_UPPER == <<"S", "Q", "L", "C">>

Callees == {Identifier(SQLC_NAME), Identifier(SQLC_UPPER)}

Atoms == {StringLiteral(SRC_a), NoSubstitutionTemplateLiteral(SRC_b), NumericLiteral}

SqlcOfA == CallExpression(Identifier(SQLC_NAME), <<StringLiteral(SRC_a)>>)
SqlcOfNothing == CallExpression(Identifier(SQLC_NAME), << >>)

\* sqlc('a'), sqlc(), SQLC('a'), ...
InnerCalls == {CallExpression(c, args) : c \in Callees, args \in SeqsUpTo(Atoms, 1)}

\* What stands as an argument of an outer call
Arguments ==
    Atoms \cup {SqlcOfA, SqlcOfNothing}
          \cup {TemplateExpression(<<x>>) : x \in {NumericLiteral, SqlcOfA}}

\* sqlc(...), SQLC(...) and sqlc('a').exec(...), with up to two arguments
OuterCalls ==
    {CallExpression(c, args) :
        c \in Callees \cup {PropertyAccessExpression(SqlcOfA)},
        args \in SeqsUpTo(Arguments, 2)}

Contents ==
    {SourceFile(statements) : statements \in SeqsUpTo(OuterCalls, 1)}
        \cup {SourceFile(<<x, y>>) : x, y \in InnerCalls}

\* scan_files: extract_sql(content) for the content of one file
ExtractSql ==
    /\ pc = "start"
    /\ results' = extract_sql(content)
    /\ pc' = "extracted"
    /\ UNCHANGED <<queryVars, watchVars, typeVars, content, generateVars>>

InitExtract ==
    /\ pc = "start"
    /\ QueryIdle
    /\ WatchIdle
    /\ TypesIdle
    /\ content \in Contents
    /\ results = << >>
    /\ GenerateIdle

NextExtract == ExtractSql

SpecExtract == InitExtract /\ [][NextExtract]_vars

-----------------------------------------------------------------------------
(* generate: one run of the generator *)

\* String.prototype.trim, for the blank as the only white space
RECURSIVE TrimStart(_)
TrimStart(text) ==
    IF Len(text) > 0 /\ Head(text) = " " THEN TrimStart(Tail(text)) ELSE text

RECURSIVE TrimEnd(_)
TrimEnd(text) ==
    IF Len(text) > 0 /\ text[Len(text)] = " "
    THEN TrimEnd(SubSeq(text, 1, Len(text) - 1)) ELSE text

Trim(text) == TrimEnd(TrimStart(text))

\* The text hashed for the name of a query: sql.trim()
HashedText(sql) == Trim(sql)

\* render_query: the name is 'query_' and 8 digits of the md5 of the hashed
\* text; the model takes the hashed text itself for the name (no two texts
\* of the model collide).  The content is the header with the name, and the
\* text as written.
render_query(sql) == [name |-> HashedText(sql), content |-> [name |-> HashedText(sql), sql |-> sql]]

\* extract_sql of every file, one after the other
RECURSIVE ExtractAll(_, _)
ExtractAll(fs, i) ==
    IF i > Len(fs) THEN << >> ELSE extract_sql(fs[i]) \o ExtractAll(fs, i + 1)

\* The two loops of scan_files, from entry i of the extracted entries on:
\* the Map and the contents appended to queries.sql
RECURSIVE ScanFrom(_, _, _, _)
ScanFrom(entries, i, map, queries_file) ==
    IF i > Len(entries) THEN [queries |-> map, queries_file |-> queries_file]
    ELSE LET query == entries[i]
         IN  IF query.success /\ render_query(query.sql).name \notin DOMAIN map
             THEN ScanFrom(entries, i + 1,
                           Put(map, render_query(query.sql).name, query.sql),
                           Append(queries_file, render_query(query.sql).content))
             ELSE ScanFrom(entries, i + 1, map, queries_file)

scan_files(fs) == ScanFrom(ExtractAll(fs, 1), 1, << >>, << >>)

\* Files of the temporary directory
SCHEMA_SQL == "schema.sql"
SQLC_JSON == "sqlc.json"
QUERIES_SQL == "queries.sql"
GENERATED == "generated"

\* The output file: not there, left by an earlier run, or written by this one
NoFile == [kind |-> "none"]
OldFile == [kind |-> "old"]
RenderedQueries(table_keys) == [kind |-> "queries", keys |-> table_keys]
RenderedComment(message) == [kind |-> "comment", message |-> message]

\* Promise outcomes
Fulfilled(value) == [status |-> "fulfilled", value |-> value]
Rejected(error) == [status |-> "rejected", error |-> error]

\* new Error(message)
NewError(message) == [message |-> message]

ERR_SCHEMA == "ENOENT: schema"
ERR_COLUMNS == "Invalid schema structure"

\* How the sqlc run ends: well, or with an error that carries the stderr of
\* the process, or with an error without one (the binary is not there, the
\* result is not JSON).  A stderr is the sequence of its pieces.
MSG_QUERY == "relation does not exist"
STDERR_QUERY == <<"# package \n", "queries.sql:", "3:1: ", MSG_QUERY>>
STDERR_CONFIG == <<"error parsing sqlc.json">>

RunsWell == [exit |-> "ok", has_stderr |-> FALSE, stderr |-> << >>]
FailsOnQuery == [exit |-> "error", has_stderr |-> TRUE, stderr |-> STDERR_QUERY]
FailsOnConfig == [exit |-> "error", has_stderr |-> TRUE, stderr |-> STDERR_CONFIG]
FailsToStart == [exit |-> "error", has_stderr |-> FALSE, stderr |-> << >>]

SqlcRuns == {RunsWell, FailsOnQuery, FailsOnConfig, FailsToStart}

\* isQueryError, with every stderr taken for a query error
IsQueryErrorAnyStderr(error) == error.has_stderr

\* 'stderr' in error && typeof error.stderr === 'string' &&
\* error.stderr.startsWith('# package \nqueries.sql:')
IsQueryError(error) ==
    /\ error.has_stderr
    /\ Len(error.stderr) >= 2
    /\ error.stderr[1] = "# package \n"
    /\ error.stderr[2] = "queries.sql:"

\* error.stderr.replace(/^# package \nqueries\.sql:\d+:\d+:\s*/, '').trim(): what
\* follows the prefix and the position
MessageOf(error) == error.stderr[Len(error.stderr)]

\* prepare_tmp_dir, with a schema file to copy: the directory is made anew
PrepareTmpDir ==
    /\ pc = "start"
    /\ env.schema_exists
    /\ tmp_dir' = (SCHEMA_SQL :> "schema") @@ (SQLC_JSON :> "config")
    /\ pc' = "prepared"
    /\ UNCHANGED <<queryVars, watchVars, typeVars, extractVars, files, env, output, queries,
                   exec_result, pending, settled>>

\* prepare_tmp_dir, without a schema file: rm and mkdir are done, fs.cp throws,
\* and generate rejects before its try block is entered
PrepareTmpDirFails ==
    /\ pc = "start"
    /\ ~env.schema_exists
    /\ tmp_dir' = << >>
    /\ settled' = Rejected(NewError(ERR_SCHEMA))
    /\ pc' = "settled"
    /\ UNCHANGED <<queryVars, watchVars, typeVars, extractVars, files, env, output, queries,
                   exec_result, pending>>

\* const queries = await scan_files(config)
ScanFiles ==
    /\ pc = "prepared"
    /\ queries' = scan_files(files).queries
    /\ tmp_dir' = Put(tmp_dir, QUERIES_SQL, scan_files(files).queries_file)
    /\ pc' = "scanned"
    /\ UNCHANGED <<queryVars, watchVars, typeVars, extractVars, files, env, output,
                   exec_result, pending, settled>>

\* exec_sqlc, the run ending well: the result names the queries of queries.sql
ExecSqlc ==
    /\ pc = "scanned"
    /\ env.sqlc.exit = "ok"
    /\ tmp_dir' = Put(tmp_dir, GENERATED, "codegen_request.json")
    /\ exec_result' = [success |-> TRUE,
                       result |-> [i \in 1..Len(tmp_dir[QUERIES_SQL]) |->
                                      tmp_dir[QUERIES_SQL][i].name]]
    /\ pc' = "executed"
    /\ UNCHANGED <<queryVars, watchVars, typeVars, extractVars, files, env, output, queries,
                   pending, settled>>

\* exec_sqlc, the run failing with a stderr that starts with the queries.sql
\* prefix: the message is returned
ExecSqlcQueryError ==
    /\ pc = "scanned"
    /\ env.sqlc.exit = "error"
    /\ IsQueryError(env.sqlc)
    /\ exec_result' = [success |-> FALSE, result |-> MessageOf(env.sqlc)]
    /\ pc' = "executed"
    /\ UNCHANGED <<queryVars, watchVars, typeVars, extractVars, files, env, tmp_dir, output,
                   queries, pending, settled>>

\* exec_sqlc, failing in any other way: the error is thrown again, and leaves
\* the try block of generate
ExecSqlcThrows ==
    /\ pc = "scanned"
    /\ env.sqlc.exit = "error"
    /\ ~IsQueryError(env.sqlc)
    /\ pending' = Rejected(env.sqlc)
    /\ pc' = "finally"
    /\ UNCHANGED <<queryVars, watchVars, typeVars, extractVars, files, env, tmp_dir, output,
                   queries, exec_result, settled>>

\* generate_types and render_write of the result: the table has one entry per
\* query of the result, keyed by queries.get(query.name); generate_query
\* throws when extract_nested_schema rejects the columns of a query
RenderWriteQueries ==
    /\ pc = "executed"
    /\ exec_result.success
    /\ IF env.columns_ok
       THEN /\ output' = RenderedQueries([i \in 1..Len(exec_result.result) |->
                                            queries[exec_result.result[i]]])
            /\ pending' = Fulfilled(Cardinality(DOMAIN queries))
       ELSE /\ output' = output
            /\ pending' = Rejected(NewError(ERR_COLUMNS))
    /\ pc' = "finally"
    /\ UNCHANGED <<queryVars, watchVars, typeVars, extractVars, files, env, tmp_dir, queries,
                   exec_result, settled>>

\* render_write of the comment, then throw new Error(exec_result.result)
RenderWriteError ==
    /\ pc = "executed"
    /\ ~exec_result.success
    /\ output' = RenderedComment(exec_result.result)
    /\ pending' = Rejected(NewError(exec_result.result))
    /\ pc' = "finally"
    /\ UNCHANGED <<queryVars, watchVars, typeVars, extractVars, files, env, tmp_dir, queries,
                   exec_result, settled>>

\* if (config.clear_tmp)
ClearsTmp(cfg) == cfg.clear_tmp

\* The finally block, after which the promise settles
Finally ==
    /\ pc = "finally"
    /\ tmp_dir' = IF ClearsTmp(config) THEN Null ELSE tmp_dir
    /\ settled' = pending
    /\ pc' = "settled"
    /\ UNCHANGED <<queryVars, watchVars, typeVars, extractVars, files, env, output, queries,
                   exec_result, pending>>

\* The scanned files: sqlc('a'); sqlc(' a'); sqlc of the template b, then sqlc()
FileContents ==
    {SourceFile(<<SqlcOfA>>),
     SourceFile(<<CallExpression(Identifier(SQLC_NAME), <<StringLiteral(SRC_space_a)>>)>>),
     SourceFile(<<CallExpression(Identifier(SQLC_NAME), <<NoSubstitutionTemplateLiteral(SRC_b)>>),
                  SqlcOfNothing>>)}

MaxFiles == 2

InitGenerate ==
    /\ pc = "start"
    /\ QueryIdle
    /\ WatchIdle
    /\ column = Null
    /\ schema_types = {}
    /\ resolved = NotYet
    /\ ExtractIdle
    /\ config \in [clear_tmp : BOOLEAN]
    /\ files \in SeqsUpTo(FileContents, MaxFiles)
    /\ env \in [schema_exists : BOOLEAN,
                sqlc : SqlcRuns,
                columns_ok : BOOLEAN]
    /\ tmp_dir \in {Null, (SCHEMA_SQL :> "schema") @@ (SQLC_JSON :> "config")}
    /\ output \in {NoFile, OldFile}
    /\ queries = << >>
    /\ exec_result = NotYet
    /\ pending = NotYet
    /\ settled = NotYet

NextGenerate ==
    \/ PrepareTmpDir
    \/ PrepareTmpDirFails
    \/ ScanFiles
    \/ ExecSqlc
    \/ ExecSqlcQueryError
    \/ ExecSqlcThrows
    \/ RenderWriteQueries
    \/ RenderWriteError
    \/ Finally

SpecGenerate == InitGenerate /\ [][NextGenerate]_vars

-----------------------------------------------------------------------------
(* watch: every event of the watcher calls the debounced generate (cli.ts) *)
(*                                                                         *)
(* Paths are sequences of segments below config.root.  The watcher emits   *)
(* an event for a path that is at or below one of the watched paths and    *)
(* not at or below one of the ignored paths.  A step of the event loop     *)
(* (an event of the watcher, a timer callback, a continuation of a run) is *)
(* one action.  func catches what generate throws, so a run settles from   *)
(* wherever generate has got to, and the callback given to finally runs in *)
(* the step in which the run settles.                                      *)

MaxChanges == 3

\* p is q or is below q
Under(p, q) == Len(q) <= Len(p) /\ SubSeq(p, 1, Len(q)) = q

P_src == <<"src">>
P_schema == <<"schema.sql">>
P_output == <<"src", "sqlc.ts">>
P_tmp == <<".sqlc">>
P_src_tmp == <<"src", ".sqlc">>
P_source_file == <<"src", "a.ts">>
P_readme == <<"README.md">>

\* The configurations: the defaults of validate_config (include 'src/**/*.ts'),
\* a temporary directory inside the watched root, and an include pattern
\* that starts with a wildcard: glob_root turns it into the root itself
WatchConfigs ==
    {[watch_root |-> P_src, schema |-> P_schema, output |-> P_output, tmp_dir |-> P_tmp],
     [watch_root |-> P_src, schema |-> P_schema, output |-> P_output, tmp_dir |-> P_src_tmp],
     [watch_root |-> << >>, schema |-> P_schema, output |-> P_output, tmp_dir |-> P_tmp]}

\* watch([watch_root, config.schema], ...)
WatchedPaths(cfg) == {cfg.watch_root, cfg.schema}

\* ignored, with config.output left out
IgnoredPathsTmpDirOnly(cfg) == {cfg.tmp_dir}

\* ignored: [config.tmp_dir, config.output]
IgnoredPaths(cfg) == {cfg.tmp_dir, cfg.output}

\* The watcher emits an event for a change at path p
Emits(cfg, p) ==
    /\ \E w \in WatchedPaths(cfg) : Under(p, w)
    /\ ~\E g \in IgnoredPaths(cfg) : Under(p, g)

\* The paths generate writes to, in order: prepare_tmp_dir makes the
\* directory and fills it, scan_files writes queries.sql, render_write
\* writes the output, rm_tmp_dir removes the directory
RunPaths(cfg) ==
    <<cfg.tmp_dir, cfg.tmp_dir \o <<"sqlc.json">>, cfg.tmp_dir \o <<"queries.sql">>,
      cfg.output, cfg.tmp_dir>>

\* The files that are changed from outside
ExternalPaths(cfg) == {P_source_file, cfg.schema, P_readme, cfg.output}

APromise == [kind |-> "promise"]

\* wrapped(), called by caller: clearTimeout(timeout); timeout = setTimeout(..., wait).
\* The value is the new timer; the one that was waiting is gone.
wrapped(caller) == caller

\* if (promise), with no promise ever taken to be there
HasPromiseNever(p) == FALSE

\* if (promise)
HasPromise(p) == p # Null

\* A file is changed from outside; if the watcher emits an event for it,
\* wrapped() runs
Change ==
    /\ pc = "watching"
    /\ changes < MaxChanges
    /\ changes' = changes + 1
    /\ \E p \in ExternalPaths(config) :
        timeout' = IF Emits(config, p) THEN wrapped("event") ELSE timeout
    /\ UNCHANGED <<pc, queryVars, typeVars, extractVars, generateVars,
                   promise, debounce_pending, runs, written>>

\* The callback given to setTimeout
TimerFires ==
    /\ pc = "watching"
    /\ timeout # NoTimer
    /\ timeout' = NoTimer
    /\ IF HasPromise(promise)
       THEN /\ debounce_pending' = TRUE
            /\ UNCHANGED <<promise, runs>>
       ELSE /\ promise' = APromise
            /\ runs' = Append(runs, 1)
            /\ UNCHANGED debounce_pending
    /\ UNCHANGED <<pc, queryVars, typeVars, extractVars, generateVars, changes, written>>

\* A run of generate makes its next write; the watcher may emit an event for it
RunWrites ==
    /\ pc = "watching"
    /\ \E i \in 1..Len(runs) :
        /\ runs[i] <= Len(RunPaths(config))
        /\ LET p == RunPaths(config)[runs[i]]
           IN  /\ written' = written \cup {p}
               /\ timeout' = IF Emits(config, p) THEN wrapped("event") ELSE timeout
        /\ runs' = [runs EXCEPT ![i] = @ + 1]
    /\ UNCHANGED <<pc, queryVars, typeVars, extractVars, generateVars,
                   promise, debounce_pending, changes>>

\* A run settles (generate returned or threw), and the callback given to
\* finally runs
RunSettles ==
    /\ pc = "watching"
    /\ \E i \in 1..Len(runs) :
        runs' = SubSeq(runs, 1, i - 1) \o SubSeq(runs, i + 1, Len(runs))
    /\ IF debounce_pending
       THEN /\ debounce_pending' = FALSE
            /\ timeout' = wrapped("finally")
            /\ UNCHANGED promise
       ELSE /\ promise' = Null
            /\ UNCHANGED <<debounce_pending, timeout>>
    /\ UNCHANGED <<pc, queryVars, typeVars, extractVars, generateVars, changes, written>>

InitWatch ==
    /\ pc = "watching"
    /\ QueryIdle
    /\ column = Null
    /\ schema_types = {}
    /\ resolved = NotYet
    /\ ExtractIdle
    /\ GenerateIdle
    /\ config \in WatchConfigs
    /\ timeout = NoTimer
    /\ promise = Null
    /\ debounce_pending = FALSE
    /\ runs = << >>
    /\ changes = 0
    /\ written = {}

NextWatch == Change \/ TimerFires \/ RunWrites \/ RunSettles

SpecWatch == InitWatch /\ [][NextWatch]_vars

\* Timers fire, and the operations a run awaits complete
SpecWatchFair ==
    /\ SpecWatch
    /\ WF_vars(TimerFires)
    /\ WF_vars(RunWrites)
    /\ WF_vars(RunSettles)

-----------------------------------------------------------------------------
(* Vocabulary of the properties *)

F_o == <<"o">>
F_t == <<"t">>
F_i == <<"i">>
F_v == <<"v">>
F_g == <<"g">>

RootOf(r) == Get(r, ROOT)

\* The elements of a sequence, each once, in the order of first appearance
RECURSIVE Distinct(_)
Distinct(q) ==
    IF q = << >> THEN << >>
    ELSE LET d == Distinct(SubSeq(q, 1, Len(q) - 1))
             x == q[Len(q)]
         IN  IF \E i \in 1..Len(d) : d[i] = x THEN d ELSE Append(d, x)

Roots(rs) == Distinct([i \in 1..Len(rs) |-> RootOf(rs[i])])

\* The rows of rs whose root identity is d, in input order
RECURSIVE GroupRows(_, _)
GroupRows(rs, d) ==
    IF rs = << >> THEN << >>
    ELSE IF RootOf(Head(rs)) = d THEN <<Head(rs)>> \o GroupRows(Tail(rs), d)
    ELSE GroupRows(Tail(rs), d)

\* The rows of rs whose column k is not null
RECURSIVE NonNullAt(_, _)
NonNullAt(rs, k) ==
    IF rs = << >> THEN << >>
    ELSE IF Get(Head(rs), k) # Null THEN <<Head(rs)>> \o NonNullAt(Tail(rs), k)
    ELSE NonNullAt(Tail(rs), k)

Column(rs, k) == [i \in 1..Len(rs) |-> Get(rs[i], k)]

AllRootsPresent == \A i \in 1..Len(rows) : ~IsNullish(RootOf(rows[i]))

ReturnedOk == pc = "returned" /\ returned.status = "ok"

\* The items of the array field f of an entity
Items(entity, f) == entity.fields[f].items

\* The last row of rs whose column k holds v
LastWith(rs, k, v) ==
    LET at == CHOOSE i \in 1..Len(rs) :
                /\ Get(rs[i], k) = v
                /\ \A j \in (i + 1)..Len(rs) : Get(rs[j], k) # v
    IN  rs[at]

-----------------------------------------------------------------------------
(* C1: when every row has a non-null root identity, unflatten_sql_results   *)
(* returns one entity per distinct root identity, in the order in which    *)
(* the identities first appear; the entity at position j is made of the    *)
(* rows of the j-th identity alone: the first of them unflattened, the     *)
(* others merged into it in input order.                                   *)

\* The rows g of one group, merged in order into the first of them
RECURSIVE MergedGroup(_, _)
MergedGroup(g, sch) ==
    IF Len(g) = 1 THEN Ok(unflatten_row(g[1], sch))
    ELSE LET before == MergedGroup(SubSeq(g, 1, Len(g) - 1), sch)
         IN  IF before.status # "ok" THEN before
             ELSE merge_objects(before.value, unflatten_row(g[Len(g)], sch))

C1_OneEntityPerRootInFirstAppearanceOrder ==
    (pc = "returned" /\ AllRootsPresent) =>
        /\ returned.status = "ok"
        /\ Len(returned.value) = Len(Roots(rows))
        /\ \A j \in 1..Len(Roots(rows)) :
            Ok(returned.value[j]) = MergedGroup(GroupRows(rows, Roots(rows)[j]), extracted.value)

\* Roots 1, 2, 1: the third row is merged into the first entity
C1_Witness ==
    /\ ReturnedOk
    /\ Len(rows) = 3
    /\ Column(rows, ROOT) = <<Num(1), Num(2), Num(1)>>
    /\ Len(returned.value) = 2

-----------------------------------------------------------------------------
(* C2: in an entity, the array o holds one element per distinct element id *)
(* among the rows of the entity's group that contribute an element (o[]    *)
(* not null), in the order in which the ids first appear; a row whose      *)
(* element id is already there is merged into that element: the element    *)
(* holds the scalars of the last row that carried its id.                  *)

C2_OneElementPerIdInFirstAppearanceOrder ==
    (ReturnedOk /\ (\E i \in 1..Len(keys) : keys[i] = K_o_id)) =>
        \A j \in 1..Len(returned.value) :
            LET group == GroupRows(rows, Roots(rows)[j])
                giving == NonNullAt(group, K_o)
                items == Items(returned.value[j], F_o)
            IN  /\ [e \in 1..Len(items) |-> IdOf(items[e])] = Distinct(Column(giving, K_o_id))
                /\ \A e \in 1..Len(items) :
                    F_t \in DOMAIN items[e].fields =>
                        items[e].fields[F_t] =
                            Get(LastWith(giving, K_o_id, IdOf(items[e])), K_o_t)

\* Element ids 10, 11, 10 in one group: two elements, the third row merged
C2_Witness ==
    /\ ReturnedOk
    /\ keys = TotalsQuery.keys
    /\ Column(rows, ROOT) = <<Num(1), Num(1), Num(1)>>
    /\ Column(rows, K_o) = <<Num(7), Num(7), Num(7)>>
    /\ Column(rows, K_o_id) = <<Num(10), Num(11), Num(10)>>
    /\ Column(rows, K_o_t) = <<Num(5), Num(5), Num(9)>>
    /\ Len(Items(returned.value[1], F_o)) = 2
    /\ Items(returned.value[1], F_o)[1].fields[F_t] = Num(9)

-----------------------------------------------------------------------------
(* C3: when the elements of the array t have no id, every row of the group *)
(* that contributes an element (t[] not null) appends it: the array holds  *)
(* one element per contributing row, each as the row gave it.              *)

C3_NoIdElementsAreAppended ==
    (ReturnedOk /\ keys = NoIdQuery.keys) =>
        \A j \in 1..Len(returned.value) :
            LET giving == NonNullAt(GroupRows(rows, Roots(rows)[j]), K_t)
                items == Items(returned.value[j], F_t)
            IN  /\ Len(items) = Len(giving)
                /\ \A e \in 1..Len(items) : items[e].fields[F_v] = Get(giving[e], K_t_v)

-----------------------------------------------------------------------------
(* C5: when a row of a non-empty input, at whatever position, has no root  *)
(* identity (no `[]` property, or null), unflatten_sql_results throws      *)
(* 'Invalid root key' and hands back nothing: not the entities of the rows *)
(* before the offending one.                                               *)

C5_MissingRootIdentityAbortsEverything ==
    (pc = "returned" /\ ~AllRootsPresent) =>
        /\ returned.status = ERR_ROOT_KEY
        /\ DOMAIN returned = {"status"}

\* Two good rows of different groups, then a row with a null root
C5_Witness ==
    /\ pc = "returned"
    /\ Len(rows) = 3
    /\ Column(rows, ROOT) = <<Num(1), Num(2), Null>>
    /\ returned.status = ERR_ROOT_KEY

-----------------------------------------------------------------------------
(* C7: a row whose marker `<array>[]` is null has an empty sequence for    *)
(* that array in its unflattened object, and merging it into the entity of *)
(* its group leaves the entity's array as it was after the rows before it. *)
(* Stated for the arrays o and t at the top level and for the array i      *)
(* inside the elements of o.                                               *)

HasColumn(k) == \E i \in 1..Len(keys) : keys[i] = k

\* The result after the first n rows
AfterRows(n) == unflatten_sql_results(SubSeq(rows, 1, n), extracted.value)

\* The position of the entity of root identity d after the first n rows, 0 if none
EntityAt(n, d) ==
    LET ds == Roots(SubSeq(rows, 1, n))
    IN  IF \E p \in 1..Len(ds) : ds[p] = d
        THEN CHOOSE p \in 1..Len(ds) : ds[p] = d ELSE 0

TopLevelArrayUntouched(i, marker, f) ==
    (HasColumn(marker) /\ Get(rows[i], marker) = Null) =>
        /\ Items(built[i], f) = << >>
        /\ LET p == EntityAt(i - 1, RootOf(rows[i]))
           IN  p # 0 =>
                /\ AfterRows(i).status = "ok"
                /\ Items(AfterRows(i).value[p], f) = Items(AfterRows(i - 1).value[p], f)

InnerArrayUntouched(i) ==
    (HasColumn(K_o_i) /\ Get(rows[i], K_o_i) = Null) =>
        /\ Items(Items(built[i], F_o)[1], F_i) = << >>
        /\ LET p == EntityAt(i - 1, RootOf(rows[i]))
           IN  p # 0 =>
                LET old == Items(AfterRows(i - 1).value[p], F_o)
                    new == Items(AfterRows(i).value[p], F_o)
                IN  \A e \in 1..Len(old) :
                        /\ IdOf(new[e]) = IdOf(old[e])
                        /\ Items(new[e], F_i) = Items(old[e], F_i)

C7_NullMarkerRowAddsNoElement ==
    pc = "returned" =>
        \A i \in 1..Len(rows) :
            /\ TopLevelArrayUntouched(i, K_o, F_o)
            /\ TopLevelArrayUntouched(i, K_t, F_t)
            /\ InnerArrayUntouched(i)

\* An entity with one order; the second row of the group has a null marker
C7_Witness ==
    /\ ReturnedOk
    /\ keys = ArrayQuery.keys
    /\ Column(rows, ROOT) = <<Num(1), Num(1), Num(1)>>
    /\ Column(rows, K_o) = <<Num(7), Null, Num(7)>>
    /\ Column(rows, K_o_id) = <<Num(10), Num(11), Num(11)>>
    /\ built[2].fields[F_o] = Arr(<< >>)
    /\ Len(Items(AfterRows(1).value[1], F_o)) = 1
    /\ Len(Items(AfterRows(2).value[1], F_o)) = 1
    /\ Len(Items(returned.value[1], F_o)) = 2

-----------------------------------------------------------------------------
(* C8: in the unflattened object of a row, every array field is the empty  *)
(* sequence exactly when the row's value at `<path>[]` is null, and is     *)
(* otherwise a sequence of exactly one element, itself an unflattened      *)
(* object of the array's properties; so its length is 0 or 1.  A row       *)
(* without the marker column (undefined, not null) gives one element.      *)

RECURSIVE ArrayFieldsFollowMarkers(_, _, _, _)
ArrayFieldsFollowMarkers(r, sch, fields, prefix) ==
    /\ DOMAIN fields = DOMAIN sch
    /\ \A k \in DOMAIN sch :
        LET path == IF prefix = << >> THEN k ELSE prefix \o <<".">> \o k
            marker == path \o <<"[", "]">>
        IN  IF sch[k].type = "array" THEN
                /\ fields[k].kind = "array"
                /\ (fields[k].items = << >>) <=> (Get(r, marker) = Null)
                /\ Len(fields[k].items) \in {0, 1}
                /\ \A e \in 1..Len(fields[k].items) :
                    /\ fields[k].items[e].kind = "object"
                    /\ ArrayFieldsFollowMarkers(r, sch[k].properties,
                                                fields[k].items[e].fields, marker)
            ELSE IF sch[k].type = "object" THEN
                /\ fields[k].kind = "object"
                /\ ArrayFieldsFollowMarkers(r, sch[k].properties, fields[k].fields, path)
            ELSE TRUE

C8_ArrayFieldIsEmptyIffMarkerNull ==
    pc = "returned" =>
        \A i \in 1..Len(rows) :
            ArrayFieldsFollowMarkers(rows[i], extracted.value, built[i].fields, << >>)

\* A row of the query that does not select g[]: the marker is undefined, not
\* null, and the row has one element
C8_Witness ==
    /\ pc = "returned"
    /\ Len(rows) >= 1
    /\ keys = ObjectQuery.keys
    /\ Get(rows[1], <<"g", "[", "]">>) = Undefined
    /\ Len(Items(built[1], F_g)) = 1
    /\ Items(built[1], F_g)[1].fields[<<"x">>] = Num(5)

-----------------------------------------------------------------------------
(* C9: for every schema extract_nested_schema returns and every row, each  *)
(* value node's field of the unflattened row holds the scalar the row has  *)
(* at the node's original_name.  No two columns of a row of RowsOfKeys     *)
(* hold the same value, so the key read is the original_name itself.       *)

RECURSIVE ValueFieldsHoldOriginalColumns(_, _, _)
ValueFieldsHoldOriginalColumns(r, sch, fields) ==
    \A k \in DOMAIN sch :
        /\ k \in DOMAIN fields
        /\ IF sch[k].type = "value" THEN
                /\ sch[k].original_name \in DOMAIN r
                /\ fields[k] = r[sch[k].original_name]
           ELSE IF sch[k].type = "object" THEN
                ValueFieldsHoldOriginalColumns(r, sch[k].properties, fields[k].fields)
           ELSE \A e \in 1..Len(fields[k].items) :
                ValueFieldsHoldOriginalColumns(r, sch[k].properties,
                                               fields[k].items[e].fields)

C9_ValueFieldHoldsOriginalColumn ==
    pc = "returned" =>
        \A i \in 1..Len(rows) :
            ValueFieldsHoldOriginalColumns(rows[i], extracted.value, built[i].fields)

\* A column under an array and an object, and one under the array named ''
C9_Witness ==
    /\ pc = "returned"
    /\ keys = <<ROOT, K_aa_b_c, K_root_a>>
    /\ Items(built[1], K_a)[1].fields[K_b].fields[<<"c">>] = Str(K_aa_b_c)
    /\ Items(built[1], << >>)[1].fields[K_a] = Str(K_root_a)

-----------------------------------------------------------------------------
(* C4: extract_nested_schema throws 'Invalid schema structure' for every   *)
(* column list (with the root key, every key well formed) in which one key *)
(* makes a path a value node and another key makes the same path an object *)
(* or an array, whichever of the two comes first.                          *)

WellFormed(k) == \A d \in 1..Len(Split(k)) : Split(k)[d] # << >>

\* The name of the node that part d of key k names
NodeName(k, d) ==
    LET part == Split(k)[d]
    IN  IF EndsWithBrackets(part) THEN SliceOffBrackets(part) ELSE part

\* The kind of node that key k makes of the path of its first d parts
NodeKind(k, d) ==
    IF EndsWithBrackets(Split(k)[d]) THEN "array"
    ELSE IF d = Len(Split(k)) THEN "value" ELSE "object"

\* Keys k1 and k2 spell the same path with their first d parts
SamePath(k1, k2, d) ==
    /\ d <= Len(Split(k1))
    /\ d <= Len(Split(k2))
    /\ \A e \in 1..d : NodeName(k1, e) = NodeName(k2, e)
    /\ \A e \in 1..(d - 1) : NodeKind(k1, e) = NodeKind(k2, e)

ValueAgainstContainer(ks) ==
    \E i, j \in 1..Len(ks) :
        /\ ks[i] # ROOT
        /\ ks[j] # ROOT
        /\ SamePath(ks[i], ks[j], Len(Split(ks[i])))
        /\ NodeKind(ks[i], Len(Split(ks[i]))) = "value"
        /\ NodeKind(ks[j], Len(Split(ks[i]))) \in {"object", "array"}

C4_ValueAgainstContainerIsRejected ==
    ( /\ pc # "start"
      /\ \E i \in 1..Len(keys) : keys[i] = ROOT
      /\ \A i \in 1..Len(keys) : keys[i] = ROOT \/ WellFormed(keys[i])
      /\ ValueAgainstContainer(keys) ) =>
        extracted.status = ERR_STRUCTURE

-----------------------------------------------------------------------------
(* C6: merge_objects throws 'Expected array at key' or 'Expected object at *)
(* key' whenever target and source disagree on the kind of a field: the    *)
(* source holds a sequence where the target holds anything else (a scalar, *)
(* null, an object), or the source holds an object where the target holds  *)
(* a scalar, null or a sequence.                                           *)

RECURSIVE KindsDisagree(_, _)
KindsDisagree(t, s) ==
    \E k \in DOMAIN s.fields :
        /\ k \in DOMAIN t.fields
        /\ \/ s.fields[k].kind = "array" /\ t.fields[k].kind # "array"
           \/ s.fields[k].kind = "object" /\ t.fields[k].kind # "object"
           \/ /\ s.fields[k].kind = "object"
              /\ t.fields[k].kind = "object"
              /\ KindsDisagree(t.fields[k], s.fields[k])

C6_KindMismatchIsRejected ==
    (pc = "merged" /\ KindsDisagree(target, source)) =>
        merged.status \in {ERR_ARRAY, ERR_OBJECT}

-----------------------------------------------------------------------------
(* C10: the rows of one root group, processed in any order.  Two rows      *)
(* agree on their scalar fields when they hold the same value at every     *)
(* column whose value both of them put into the same object: the entity    *)
(* itself, or an array element that both rows contribute to (markers not   *)
(* null, equal ids at every array level above the column).                 *)

\* The first d parts of key k, joined by dots again
RECURSIVE JoinParts(_, _)
JoinParts(parts, d) ==
    IF d = 1 THEN parts[1] ELSE JoinParts(parts, d - 1) \o <<".">> \o parts[d]

\* The marker columns of the arrays above column k
ArraysAbove(k) ==
    {JoinParts(Split(k), d) : d \in {e \in 1..(Len(Split(k)) - 1) :
                                        EndsWithBrackets(Split(k)[e])}}

\* Rows r1 and r2 put column k into the same object
SameObject(r1, r2, k) ==
    \A m \in ArraysAbove(k) :
        /\ Get(r1, m) # Null
        /\ Get(r2, m) # Null
        /\ Get(r1, m \o <<".", "i", "d">>) = Get(r2, m \o <<".", "i", "d">>)

ValueColumns == {keys[i] : i \in {j \in 1..Len(keys) : ~EndsWithBrackets(keys[j])}}

AgreeOnScalars(g) ==
    \A a, b \in 1..Len(g) : \A k \in ValueColumns :
        SameObject(g[a], g[b], k) => Get(g[a], k) = Get(g[b], k)

\* Equal but for the order of the elements of arrays
RECURSIVE SameUpToArrayOrder(_, _)
SameUpToArrayOrder(v, w) ==
    IF v.kind # w.kind THEN FALSE
    ELSE IF v.kind = "array" THEN
        /\ Len(v.items) = Len(w.items)
        /\ \A i \in 1..Len(v.items) : \E j \in 1..Len(w.items) :
            SameUpToArrayOrder(v.items[i], w.items[j])
        /\ \A j \in 1..Len(w.items) : \E i \in 1..Len(v.items) :
            SameUpToArrayOrder(v.items[i], w.items[j])
    ELSE IF v.kind = "object" THEN
        /\ DOMAIN v.fields = DOMAIN w.fields
        /\ \A k \in DOMAIN v.fields : SameUpToArrayOrder(v.fields[k], w.fields[k])
    ELSE v = w

\* The rows g in the order pi
Reordered(g, pi) == [i \in 1..Len(g) |-> g[pi[i]]]

\* What unflatten_sql_results makes of the rows g of one group in the order pi
EntityOf(g, pi) == unflatten_sql_results(Reordered(g, pi), extracted.value)

\* C10 as stated: every order of the rows of a group that agree on their
\* scalar fields gives the same entity
C10_AnyOrderSameEntity ==
    ReturnedOk =>
        \A j \in 1..Len(returned.value) :
            LET g == GroupRows(rows, Roots(rows)[j])
            IN  AgreeOnScalars(g) =>
                    \A pi \in Permutations(1..Len(g)) :
                        EntityOf(g, pi) = Ok(<<returned.value[j]>>)

\* C10, amended: every order of the rows of a group that agree on their
\* scalar fields gives one entity, the same but for the order of the elements
\* of its arrays (which follows the first appearance of each element)
C10_AnyOrderSameEntityUpToArrayOrder ==
    ReturnedOk =>
        \A j \in 1..Len(returned.value) :
            LET g == GroupRows(rows, Roots(rows)[j])
            IN  AgreeOnScalars(g) =>
                    \A pi \in Permutations(1..Len(g)) :
                        /\ EntityOf(g, pi).status = "ok"
                        /\ Len(EntityOf(g, pi).value) = 1
                        /\ SameUpToArrayOrder(EntityOf(g, pi).value[1], returned.value[j])

\* Three rows of one group that agree, with orders 10, 11, 10: the reverse
\* order gives the orders 10, 11 too, another order gives 11, 10
C10_Witness ==
    /\ ReturnedOk
    /\ keys = ArrayQuery.keys
    /\ Len(rows) = 3
    /\ Column(rows, ROOT) = <<Num(1), Num(1), Num(1)>>
    /\ Column(rows, K_o) = <<Num(7), Num(7), Num(7)>>
    /\ Column(rows, K_o_id) = <<Num(10), Num(11), Num(10)>>
    /\ AgreeOnScalars(rows)
    /\ Len(Items(returned.value[1], F_o)) = 2
    /\ EntityOf(rows, <<2, 1, 3>>) # Ok(returned.value)
    /\ SameUpToArrayOrder(EntityOf(rows, <<2, 1, 3>>).value[1], returned.value[1])

-----------------------------------------------------------------------------
(* C11: when the rows of one root group disagree on a scalar field of the  *)
(* entity (a column with no array above it, at the top level or inside a   *)
(* nested object; a null value included), the merged entity holds the      *)
(* value of the last row of the group in input order, and no error is     *)
(* raised.                                                                 *)

\* The value found in v by following the object fields parts[i], parts[i+1], ...
RECURSIVE ValueAtPath(_, _, _)
ValueAtPath(v, parts, i) ==
    IF i > Len(parts) THEN v
    ELSE IF ~IsObjectLike(v) THEN Undefined
    ELSE ValueAtPath(Get(v.fields, parts[i]), parts, i + 1)

\* The value columns that are scalar fields of the entity itself
EntityScalars == {k \in ValueColumns : ArraysAbove(k) = {}}

C11_LastRowOfGroupWinsOnScalars ==
    (pc = "returned" /\ AllRootsPresent) =>
        /\ returned.status = "ok"
        /\ \A j \in 1..Len(Roots(rows)) :
            LET g == GroupRows(rows, Roots(rows)[j])
            IN  \A k \in EntityScalars :
                    ValueAtPath(returned.value[j], Split(k), 1) = Get(g[Len(g)], k)

\* Roots 1, 2, 1 with s.a = 3, 3, null: the first entity ends with s.a null
C11_Witness ==
    /\ ReturnedOk
    /\ keys = ObjectQuery.keys
    /\ Column(rows, ROOT) = <<Num(1), Num(2), Num(1)>>
    /\ Column(rows, K_s_a) = <<Num(3), Num(3), Null>>
    /\ ValueAtPath(returned.value[1], Split(K_s_a), 1) = Null
    /\ ValueAtPath(returned.value[2], Split(K_s_a), 1) = Num(3)

-----------------------------------------------------------------------------
(* C12: a key list that holds a key with an empty dot-separated segment    *)
(* (two adjacent dots, a leading dot, a trailing dot, the empty key) is    *)
(* rejected wherever the key stands in the list.                           *)

HasEmptySegment(k) == \E e \in 1..Len(Split(k)) : Split(k)[e] = << >>

HasMalformedKey == \E i \in 1..Len(keys) : HasEmptySegment(keys[i])

HasRootKey == \E i \in 1..Len(keys) : keys[i] = ROOT

\* The position of the first key with an empty segment
FirstMalformed == CHOOSE i \in 1..Len(keys) :
    HasEmptySegment(keys[i]) /\ \A j \in 1..(i - 1) : ~HasEmptySegment(keys[j])

\* The position of the first empty segment of key k
FirstEmptySegment(k) == CHOOSE e \in 1..Len(Split(k)) :
    Split(k)[e] = << >> /\ \A d \in 1..(e - 1) : Split(k)[d] # << >>

\* The keys in front of the first malformed key are accepted, and so is a
\* key that names a field under the segments in front of its empty segment:
\* the loop gets to the empty segment
ReachesEmptySegment ==
    LET k == keys[FirstMalformed]
        e == FirstEmptySegment(k)
        before == <<ROOT>> \o SubSeq(keys, 1, FirstMalformed - 1)
    IN  IF e = 1 THEN extract_nested_schema(before).status = "ok"
        ELSE extract_nested_schema(
                Append(before, JoinParts(Split(k), e - 1) \o <<".", "z">>)).status = "ok"

-----------------------------------------------------------------------------
(* C13: a types entry of the configuration for the database type of a      *)
(* column overrides the built-in default: for a column with no columns     *)
(* override, whose database type is not a type declared in the catalog,   *)
(* get_column_type returns the types entry whenever there is one, also     *)
(* when DEFAULT_TYPES has an entry for the same database type.  Stated for  *)
(* the types entries that are not the empty string.                        *)

Resolved == pc = "resolved"

C13_TypesEntryOverridesDefault ==
    (/\ Resolved
     /\ SourceOf(column) \notin DOMAIN config.columns
     /\ DbTypeOf(column) \notin schema_types
     /\ DbTypeOf(column) \in DOMAIN config.types
     /\ config.types[DbTypeOf(column)] # << >>)
        => resolved.type = Str(config.types[DbTypeOf(column)])

-----------------------------------------------------------------------------
(* C14: a columns entry of the configuration keyed by the source of the    *)
(* column is returned by get_column_type whatever the types entry, the    *)
(* default mapping and the catalog say about the database type.            *)

-----------------------------------------------------------------------------
(* C16: extract_sql returns exactly one entry, in source order, for every  *)
(* call whose callee is the identifier sqlc, wherever the call is nested,  *)
(* and no entry for any other call: a success entry with the text of the   *)
(* literal when the call has exactly one argument that is a string literal *)
(* or a template literal without interpolation, a failure entry otherwise. *)

\* Every node of the tree under node, node included, in source order
RECURSIVE NodesUnder(_)
RECURSIVE NodesUnderAll(_, _)
NodesUnder(node) == <<node>> \o NodesUnderAll(ChildrenOf(node), 1)

NodesUnderAll(children, i) ==
    IF i > Len(children) THEN << >>
    ELSE NodesUnder(children[i]) \o NodesUnderAll(children, i + 1)

\* The entry the claim gives to a call of sqlc
EntryOfCall(node) ==
    IF /\ Len(node.arguments) = 1
       /\ node.arguments[1].kind \in {"StringLiteral", "NoSubstitutionTemplateLiteral"}
    THEN "success" ELSE "failure"

OutcomeOf(entry) == IF entry.success THEN "success" ELSE "failure"

SqlcCallsIn(sourceFile) == SelectSeq(NodesUnder(sourceFile), IsSqlcCall)

C16_OneEntryPerSqlcCall ==
    pc = "extracted" =>
        LET calls == SqlcCallsIn(content)
        IN  /\ Len(results) = Len(calls)
            /\ \A i \in 1..Len(calls) :
                /\ OutcomeOf(results[i]) = EntryOfCall(calls[i])
                /\ results[i].success =>
                    results[i].sql = SliceQuotes(calls[i].arguments[1].text)

-----------------------------------------------------------------------------
(* C15: the generated table is keyed by the original query text: for every *)
(* text that extract_sql extracts with success from the scanned files, the *)
(* Map returned by scan_files has an entry holding exactly that text, and  *)
(* the queries table written to the output has it as a key; also for two   *)
(* texts that differ in leading or trailing white space only.              *)

\* scan_files has returned
Scanned ==
    \/ pc \in {"scanned", "executed", "finally"}
    \/ pc = "settled" /\ env.schema_exists

\* The texts extracted with success from the scanned files
ExtractedTexts ==
    {ExtractAll(files, 1)[i].sql :
        i \in {j \in 1..Len(ExtractAll(files, 1)) : ExtractAll(files, 1)[j].success}}

C15_EveryExtractedTextIsAKey ==
    Scanned =>
        /\ ExtractedTexts = Range(queries)
        /\ output.kind = "queries" => ExtractedTexts = Range(output.keys)

-----------------------------------------------------------------------------
(* C17: when the sqlc run reports a query error, generate writes the       *)
(* output file with the comment 'Unable to generate queries: <message>'    *)
(* in place of the queries, and after that rejects with the message; when  *)
(* the sqlc run fails in any other way, generate rejects with the error of *)
(* the run and no step of it touches the output file.                      *)

\* The step settles the promise
Settles == settled = NotYet /\ settled' # NotYet

C17_Step ==
    /\ (env.schema_exists /\ env.sqlc = FailsOnQuery) =>
        /\ output' # output =>
            /\ output' = RenderedComment(MSG_QUERY)
            /\ settled' = NotYet
        /\ Settles =>
            /\ output = RenderedComment(MSG_QUERY)
            /\ output' = output
            /\ settled' = Rejected(NewError(MSG_QUERY))
    /\ (env.schema_exists /\ env.sqlc \in {FailsOnConfig, FailsToStart}) =>
        /\ output' = output
        /\ Settles => settled' = Rejected(env.sqlc)

-----------------------------------------------------------------------------
(* C18: with clear_tmp true, whenever generate has settled, by success or  *)
(* by any failure, the temporary directory is not there any more; with     *)
(* clear_tmp false the directory is still there.                           *)

C18_TmpDirFollowsClearTmp ==
    pc = "settled" =>
        /\ config.clear_tmp => tmp_dir = Null
        /\ ~config.clear_tmp => tmp_dir # Null

-----------------------------------------------------------------------------
(* C19: for an empty row sequence unflatten_sql_results returns the empty  *)
(* sequence and raises no error, whatever the schema: no row is            *)
(* unflattened and no root identity is looked at.                          *)

C19_NoRowsNoEntities ==
    (pc = "returned" /\ rows = << >>) =>
        /\ returned = Ok(<< >>)
        /\ built = << >>

\* The query with nested arrays, executed with no row in the result
C19_Witness ==
    /\ pc = "returned"
    /\ keys = NestedArrayQuery.keys
    /\ rows = << >>
    /\ returned = Ok(<< >>)

-----------------------------------------------------------------------------------------------------------------------------------------------------
(* C20: the key [] never becomes a schema node, and the entities hold      *)
(* nothing of the [] column.                                               *)

\* The keys other than []
OtherKeys == SelectSeq(keys, LAMBDA k : k # ROOT)

\* The columns named by the value and object nodes of a schema
RECURSIVE ColumnsNamedIn(_)
ColumnsNamedIn(sch) ==
    UNION {(IF sch[n].type = "array" THEN {} ELSE {sch[n].original_name})
            \cup (IF sch[n].type = "value" THEN {} ELSE ColumnsNamedIn(sch[n].properties))
           : n \in DOMAIN sch}

\* The scalars held anywhere in a value
RECURSIVE ScalarsIn(_)
ScalarsIn(v) ==
    IF v.kind = "array"
    THEN UNION ({ScalarsIn(v.items[i]) : i \in 1..Len(v.items)}
                    \cup {ScalarsIn(v.fields[f]) : f \in DOMAIN v.fields})
    ELSE IF v.kind = "object"
    THEN UNION {ScalarsIn(v.fields[f]) : f \in DOMAIN v.fields}
    ELSE {v}

\* C20 as stated: the schema of an accepted key list has no node made from
\* the key [], and no field of a returned entity holds the root identity value
C20_NoFieldHoldsRootIdentity ==
    (pc # "start" /\ extracted.status = "ok") =>
        /\ ROOT \notin ColumnsNamedIn(extracted.value)
        /\ ReturnedOk =>
            \A j \in 1..Len(returned.value) :
                RootOf(rows[1]) \notin ScalarsIn(returned.value[j])

\* C20, amended: the schema of an accepted key list is the schema built from
\* the other keys alone and none of its nodes names [] as its column; every
\* scalar of a returned entity is the value of a column other than [], so an
\* entity holds the root identity value only where another selected column
\* holds that value too
C20_RootKeyIsNoSchemaNode ==
    (pc # "start" /\ extracted.status = "ok") =>
        /\ Ok(extracted.value) = InsertKeys(<< >>, OtherKeys, 1)
        /\ ROOT \notin ColumnsNamedIn(extracted.value)
        /\ ReturnedOk =>
            \A j \in 1..Len(returned.value) :
                ScalarsIn(returned.value[j]) \subseteq
                    {Get(rows[1], OtherKeys[i]) : i \in 1..Len(OtherKeys)}

\* The keys a.b, [] and [].a, with the root identity 1: accepted, with []
\* between other keys and as the first part of a key; the entity holds the
\* columns a.b and [].a only
C20_Witness ==
    /\ ReturnedOk
    /\ keys = <<K_a_b, ROOT, K_root_a>>
    /\ RootOf(rows[1]) = Num(1)
    /\ Len(returned.value) = 1
    /\ ScalarsIn(returned.value[1]) = {Str(K_a_b), Str(K_root_a)}

-----------------------------------------------------------------------------
(* C21: arrays inside array elements accumulate across rows.  For the      *)
(* columns o[].id and o[].i[].id and the rows of one root group, each      *)
(* element of o in the merged entity holds, in its array i, exactly the    *)
(* distinct item ids of the rows that carried that order's id and an item  *)
(* (o[].i[] not null), each once: no item of a row of another order.       *)

\* The rows of rs whose column k holds v
RECURSIVE RowsWith(_, _, _)
RowsWith(rs, k, v) ==
    IF rs = << >> THEN << >>
    ELSE IF Get(Head(rs), k) = v THEN <<Head(rs)>> \o RowsWith(Tail(rs), k, v)
    ELSE RowsWith(Tail(rs), k, v)

C21_NestedArraysAccumulatePerOrder ==
    (ReturnedOk /\ keys = NestedArrayQuery.keys) =>
        \A j \in 1..Len(returned.value) :
            LET group == NonNullAt(GroupRows(rows, Roots(rows)[j]), K_o)
                orders == Items(returned.value[j], F_o)
            IN  \A e \in 1..Len(orders) :
                    LET giving == NonNullAt(RowsWith(group, K_o_id, IdOf(orders[e])), K_o_i)
                        items == Items(orders[e], F_i)
                    IN  /\ {IdOf(items[n]) : n \in 1..Len(items)} = Range(Column(giving, K_o_i_id))
                        /\ \A n, m \in 1..Len(items) :
                                IdOf(items[n]) = IdOf(items[m]) => n = m

\* Orders 10, 11, 10 with items 20, 21, 21: order 10 holds the items 20 and
\* 21, the second of them from the third row, and order 11 holds item 21
C21_Witness ==
    /\ ReturnedOk
    /\ keys = NestedArrayQuery.keys
    /\ Column(rows, K_o_id) = <<Num(10), Num(11), Num(10)>>
    /\ Column(rows, K_o_i) = <<Num(7), Num(7), Num(7)>>
    /\ Column(rows, K_o_i_id) = <<Num(20), Num(21), Num(21)>>
    /\ Len(Items(returned.value[1], F_o)) = 2
    /\ Column([n \in 1..2 |-> Items(returned.value[1], F_o)[1].fields[F_i].items[n].fields], ID)
            = <<Num(20), Num(21)>>
    /\ Len(Items(Items(returned.value[1], F_o)[2], F_i)) = 1

-----------------------------------------------------------------------------
(* C22: unflatten_sql_results(rows) of unflatten.ts, which infers the       *)
(* schema from the first row, groups each row under that row's own `[]`    *)
(* value: when every row has a number for `[]`, the result has one entity  *)
(* per distinct value, in the order of first appearance.                   *)

Inferred == pc = "inferred" /\ returned.status = "ok"

AllRootsNumbers == \A i \in 1..Len(rows) : RootOf(rows[i]).kind = "number"

C22_EachRowUnderItsOwnRoot ==
    (Inferred /\ AllRootsNumbers) => Len(returned.value) = Len(Roots(rows))

-----------------------------------------------------------------------------
(* C27: for every schema extract_nested_schema returns and every sequence  *)
(* of rows with scalar values and a non-null `[]`, unflatten_sql_results   *)
(* raises neither 'Expected array at key' nor 'Expected object at key':    *)
(* the rows are unflattened by one schema, so merge_objects meets the same *)
(* kind of value in target and source at every field.                      *)

C27_NoMergeConflictOnOneSchema ==
    (pc = "returned" /\ AllRootsPresent) =>
        returned.status \notin {ERR_ARRAY, ERR_OBJECT}

\* Two rows of one entity: the first has no element of the array a, the
\* second has one, whose object b is merged field by field
C27_Witness ==
    /\ ReturnedOk
    /\ keys = <<ROOT, K_aa, K_aa_b_c>>
    /\ Column(rows, ROOT) = <<Num(1), Num(1)>>
    /\ Column(rows, K_aa) = <<Null, Str(K_aa)>>
    /\ Len(returned.value) = 1
    /\ Items(returned.value[1], K_a) = <<Obj(K_b :> Obj(<<"c">> :> Str(K_aa_b_c)))>>

-----------------------------------------------------------------------------
(* C28: extract_nested_schema drops no column.  Whenever it returns a      *)
(* schema, every key of the list other than `[]` and other than the keys   *)
(* whose last segment ends in `[]` has exactly one value node whose        *)
(* original_name is that key, and the node is at the path the key spells.  *)

NoNode == [type |-> "none"]

\* The node that parts[i..] spell under the property map props
RECURSIVE NodeAt(_, _, _)
NodeAt(props, parts, i) ==
    LET part == parts[i]
        name == IF EndsWithBrackets(part) THEN SliceOffBrackets(part) ELSE part
    IN  IF name \notin DOMAIN props THEN NoNode
        ELSE IF i = Len(parts) THEN props[name]
        ELSE IF props[name].type = "value" THEN NoNode
        ELSE NodeAt(props[name].properties, parts, i + 1)

\* How many value nodes under props (todo: the properties still to count)
\* have the original_name key
RECURSIVE CountNamed(_, _, _)
CountNamed(props, todo, key) ==
    IF todo = {} THEN 0
    ELSE LET k == CHOOSE x \in todo : TRUE
             node == props[k]
             here == IF node.type = "value"
                     THEN (IF node.original_name = key THEN 1 ELSE 0)
                     ELSE CountNamed(node.properties, DOMAIN node.properties, key)
         IN  here + CountNamed(props, todo \ {k}, key)

\* A key that names a column: not the root key, not the marker of an array
IsColumnKey(k) == k # ROOT /\ ~EndsWithBrackets(Split(k)[Len(Split(k))])

C28_EveryColumnHasItsValueNode ==
    (pc = "generated" /\ extracted.status = "ok") =>
        \A i \in 1..Len(keys) :
            IsColumnKey(keys[i]) =>
                /\ NodeAt(extracted.value, Split(keys[i]), 1) = ValueNode(keys[i])
                /\ CountNamed(extracted.value, DOMAIN extracted.value, keys[i]) = 1

-----------------------------------------------------------------------------
(* C24: the debounce never calls the wrapped function while an earlier     *)
(* call of it is in flight: whatever the order of change events, timer     *)
(* firings and run completions, at most one generate run is executing.     *)

C24_AtMostOneRunInFlight == Len(runs) <= 1

\* The timer fired while a run was in flight: no second run, pending is set
C24_Witness ==
    /\ Len(runs) = 1
    /\ debounce_pending
    /\ promise # Null

-----------------------------------------------------------------------------
(* C23: a change is never lost by the debounce.  If the timer fires while  *)
(* a generate run is in flight (pending is set), then after that run has   *)
(* finished another run is started; so the debounce never stays in a state *)
(* in which no run can start any more.                                     *)

C23_PendingChangeStartsARun ==
    debounce_pending ~> (Len(runs) = 1 /\ ~debounce_pending)

-----------------------------------------------------------------------------
(* C25: while no run is in flight, a burst of change events, each arriving *)
(* before the timer of the one before it has fired, starts exactly one     *)
(* run, and only when the timer of the last event fires: a run starts in   *)
(* no step but the firing of a timer, and the firing of a timer that an    *)
(* event set, with no run in flight, starts one run.                       *)

\* The step is the firing of the timer: no other step leaves no timer waiting
TimerFired == timeout # NoTimer /\ timeout' = NoTimer

C25_Step ==
    /\ Len(runs') > Len(runs) => TimerFired
    /\ (TimerFired /\ timeout = "event" /\ runs = << >>) => Len(runs') = 1

C25_BurstStartsOneRunAfterLastTimer == [][C25_Step]_vars

-----------------------------------------------------------------------------
(* C26: the writes of a generate run, to the output file and inside the    *)
(* temporary directory, schedule no run: once the changes from outside     *)
(* have stopped, the watcher comes to rest, with no run in flight and no   *)
(* timer waiting, and stays there.                                         *)

AtRest == runs = << >> /\ timeout = NoTimer

C26_WatcherComesToRest == <>[]AtRest

\* The root itself is watched, with the output file and the temporary
\* directory in it; a run has written to both and the watcher is at rest
C26_Witness ==
    /\ AtRest
    /\ config.watch_root = << >>
    /\ changes = MaxChanges
    /\ {config.output, config.tmp_dir \o <<"queries.sql">>} \subseteq written
    /\ \A p \in written : \E w \in WatchedPaths(config) : Under(p, w)

====
